---- MODULE Spec2Model ----
(***************************************************************************)
(* A model of the virt-ic circuit simulator: pins, traces, the board tick, *)
(* the memory chips, the 6502 opcode tables with the assembler, and the    *)
(* 6502 CPU state machine.                                                  *)
(***************************************************************************)
EXTENDS Integers, Sequences, FiniteSets, TLC

VARIABLES
    pins,       \* the Rc<RefCell<Pin>> cells of the board: pin id -> [pin_type, state]
    sockets,    \* Board.sockets: the chips in insertion order
    traces,     \* Board.traces: each trace is its link, a sequence of pin ids
    running,    \* FALSE while the caller is still wiring the board
    pre,        \* the pin cells when the last Board::run was entered
    mid,        \* the pin cells when its trace pass had finished
    seen,       \* what each chip read on its IN pin in the last socket pass
    ran,        \* TRUE once Board::run has returned at least once
    ramChip,    \* a Ram256B driven pin by pin, as examples/ram.rs drives it
    ramWrote,   \* <<a, b>> when the last Ram256B::run was a write of b at a
    ramReadBack,\* <<a, b, out>> when the run after that write read address a
    romChip,    \* a Rom256B driven pin by pin
    romBuilt,   \* the rom array of romChip when it was built
    opOne,      \* the Opcode last given to Vec::<u8>::try_from
    opEnc,      \* what try_from returned for it
    opDec,      \* the Opcode decoded from those bytes so far
    opStage,    \* how many of the bytes the decoding has used
    asmCode,    \* the slice of Opcodes given to Assembler::assemble
    asmResult,  \* what assemble returned
    asmDone,    \* TRUE once assemble has returned
    cpuChip,    \* a Nes6502 driven pin by pin
    cpuTicks,   \* how many times its run has been called
    memChip,    \* a Ram256B of chip/memory.rs driven pin by pin
    clockChip,  \* a Clock100Hz: its pins, its timer (in ms) and its active flag
    clockTime,  \* the sum of the steps it has run with since it was powered (ms)
    clockEdges, \* how many times the state of its CLK pin has changed since then
    runDuration,\* the duration given to the Board::run_during in progress (ms)
    runStep,    \* the step given to it (ms)
    runElapsed, \* its local elapsed
    runAt,      \* where that call is: "idle" (no call), "test" or "body" of its loop
    latchPins,  \* the pins of the board of examples/sr-latch.rs
    latchDown,  \* the down flag of its set button and of its reset button
    latchLast,  \* the button pressed and released last, "none" before any
    latchSince, \* the runs of the board since that release
    sysChips,   \* the chips of the board of examples/test-6502.rs
    sysBuilt,   \* TRUE once main has built that board
    sysInstr,   \* how many instructions its CPU has fetched
    bigChip,    \* a Ram8KB driven pin by pin
    pwPins,     \* the pins given to Pin::write
    pwValue,    \* the value given to it
    pwResult,   \* what it returned
    pwAt,       \* "none", "built" once the pins exist, "written" once write has returned
    gateChip,   \* a gate chip driven pin by pin, of kind "none" before it is built
    gateRan,    \* TRUE when its run has found VCC High since its inputs were last driven
    listeners,  \* the listeners field of a chip, a Storage of callbacks
    listenerIds, \* the id add_listener returned for each callback, in the order of the calls
    listenerPanic, \* TRUE once remove_listener has panicked
    execChip,   \* a Nes6502 on a bus that holds one program
    execProg,   \* that program: the registers it loads, its last instruction, the byte m elsewhere
    execAt,     \* "idle", "run", "target" once the last instruction is fetched, "second"
                \* while the RTS its JSR reached runs, "done" after it
    execBefore, \* the registers when the last instruction was fetched
    execEdges,  \* the falling edges that found that instruction in Execute
    execWrote,  \* the byte it put on the data pins, -1 while it has put none
    execTrail,  \* the bus after each period of that instruction: address, R/W Low with D driven
    execRam     \* the bytes the RAM of the stack page has latched: address -> byte

boardVars == <<pins, sockets, traces, running, pre, mid, seen, ran>>
ramVars == <<ramChip, ramWrote, ramReadBack>>
romVars == <<romChip, romBuilt>>

opVars == <<opOne, opEnc, opDec, opStage>>
asmVars == <<asmCode, asmResult, asmDone>>
cpuVars == <<cpuChip, cpuTicks>>
memVars == <<memChip>>
clockVars == <<clockChip, clockTime, clockEdges>>
runVars == <<runDuration, runStep, runElapsed, runAt>>
latchVars == <<latchPins, latchDown, latchLast, latchSince>>
sysVars == <<sysChips, sysBuilt, sysInstr>>

bigVars == <<bigChip>>

pwVars == <<pwPins, pwValue, pwResult, pwAt>>

gateVars == <<gateChip, gateRan>>

storVars == <<listeners, listenerIds, listenerPanic>>

execVars == <<execChip, execProg, execAt, execBefore, execEdges, execWrote, execTrail, execRam>>

\* The parts of the earlier sections, and those of the later ones.
earlierVars ==
    <<boardVars, ramVars, romVars, opVars, asmVars, cpuVars,
      memVars, clockVars, runVars, latchVars, sysVars>>
laterVars == <<bigVars, pwVars, gateVars, storVars, execVars>>

vars == <<boardVars, ramVars, romVars, opVars, asmVars, cpuVars,
          memVars, clockVars, runVars, latchVars, sysVars, laterVars>>

\* What an action on one part of the model leaves alone.
notBoardVars ==
    <<ramVars, romVars, opVars, asmVars, cpuVars, memVars,
      clockVars, runVars, latchVars, sysVars, laterVars>>
notRamVars ==
    <<boardVars, romVars, opVars, asmVars, cpuVars, memVars,
      clockVars, runVars, latchVars, sysVars, laterVars>>
notRomVars ==
    <<boardVars, ramVars, opVars, asmVars, cpuVars, memVars,
      clockVars, runVars, latchVars, sysVars, laterVars>>
notOpVars ==
    <<boardVars, ramVars, romVars, asmVars, cpuVars, memVars,
      clockVars, runVars, latchVars, sysVars, laterVars>>
notAsmVars ==
    <<boardVars, ramVars, romVars, opVars, cpuVars, memVars,
      clockVars, runVars, latchVars, sysVars, laterVars>>
notCpuVars ==
    <<boardVars, ramVars, romVars, opVars, asmVars, memVars,
      clockVars, runVars, latchVars, sysVars, laterVars>>
notMemVars ==
    <<boardVars, ramVars, romVars, opVars, asmVars, cpuVars,
      clockVars, runVars, latchVars, sysVars, laterVars>>
notClockVars ==
    <<boardVars, ramVars, romVars, opVars, asmVars, cpuVars,
      memVars, runVars, latchVars, sysVars, laterVars>>
notRunVars ==
    <<boardVars, ramVars, romVars, opVars, asmVars, cpuVars,
      memVars, clockVars, latchVars, sysVars, laterVars>>
notLatchVars ==
    <<boardVars, ramVars, romVars, opVars, asmVars, cpuVars,
      memVars, clockVars, runVars, sysVars, laterVars>>
notSysVars ==
    <<boardVars, ramVars, romVars, opVars, asmVars, cpuVars,
      memVars, clockVars, runVars, latchVars, laterVars>>
\* What a run_during leaves alone: it runs the board.
notBoardRunVars ==
    <<ramVars, romVars, opVars, asmVars, cpuVars, memVars, clockVars, latchVars, sysVars, laterVars>>
notBigVars == <<earlierVars, pwVars, gateVars, storVars, execVars>>
notPwVars == <<earlierVars, bigVars, gateVars, storVars, execVars>>
notGateVars == <<earlierVars, bigVars, pwVars, storVars, execVars>>
notStorVars == <<earlierVars, bigVars, pwVars, gateVars, execVars>>
notExecVars == <<earlierVars, bigVars, pwVars, gateVars, storVars>>

----------------------------------------------------------------------------
(* Bounds of the model.                                                    *)

\* Trace::connect calls made while wiring one board.
MaxConnects == 3

----------------------------------------------------------------------------
(* Pins and states.                                                         *)

\* PinType: Floating is the direction the older sources call Undefined.
PinTypes == {"Floating", "Input", "Output"}

\* State without the Analog variant, the three values Trace::communicate matches.
States == {"Undefined", "High", "Low"}

Pin_new(pin_type) == [pin_type |-> pin_type, state |-> "Undefined"]

\* From<bool> for State
StateFromBool(bit) == IF bit THEN "High" ELSE "Low"

Range(s) == {s[i] : i \in DOMAIN s}

----------------------------------------------------------------------------
(* The chips of the board model.                                            *)

GeneratorVCC == 1
GeneratorGND == 2
ButtonIN == 1
ButtonOUT == 2

Generator_new == [kind |-> "Generator", down |-> FALSE]
Button_new == [kind |-> "Button", down |-> FALSE]

\* The board under test: one generator and two buttons, in socket order.
BoardSockets == <<Generator_new, Button_new, Button_new>>

PinIds == {<<c, n>> : c \in DOMAIN BoardSockets, n \in 1..2}

\* The pins the caller wires to traces.
WirePins == {<<1, GeneratorVCC>>, <<1, GeneratorGND>>, <<2, ButtonIN>>,
             <<2, ButtonOUT>>, <<3, ButtonIN>>}

\* The button the caller presses and releases.
Pressable == {2}

\* The pin the caller drives with set_pin_state, and the one it retypes.
DrivenPins == {<<2, ButtonIN>>}
RetypedPins == {<<3, ButtonIN>>}

\* Generator::new and Button::new: the type and first state of every pin.
InitialPins ==
    [p \in PinIds |->
        IF BoardSockets[p[1]].kind = "Generator"
        THEN [pin_type |-> "Output",
              state |-> IF p[2] = GeneratorVCC THEN "High" ELSE "Low"]
        ELSE Pin_new(IF p[2] = ButtonIN THEN "Input" ELSE "Output")]

\* Generator::run
Generator_run(ps, c) ==
    [ps EXCEPT ![<<c, GeneratorVCC>>].state = "High",
               ![<<c, GeneratorGND>>].state = "Low"]

\* Button::run
Button_run(ps, c, down) ==
    IF down
    THEN [ps EXCEPT ![<<c, ButtonOUT>>].state = ps[<<c, ButtonIN>>].state]
    ELSE [ps EXCEPT ![<<c, ButtonOUT>>].state = "Undefined"]

\* Socket::run: the plugged chip's run.
Socket_run(ps, sk, c) ==
    IF sk[c].kind = "Generator" THEN Generator_run(ps, c)
    ELSE Button_run(ps, c, sk[c].down)

----------------------------------------------------------------------------
(* Trace::communicate                                                       *)

\* The first loop: the state the Output pins of the link put on the trace.
RECURSIVE MainState(_, _, _, _)
MainState(ps, link, i, main_state) ==
    IF i > Len(link) THEN main_state
    ELSE LET pin == ps[link[i]] IN
         MainState(ps, link, i + 1,
            IF pin.pin_type = "Output"
            THEN CASE pin.state = "High" -> "High"
                   [] pin.state = "Low" ->
                        IF main_state = "Undefined" THEN "Low" ELSE main_state
                   [] OTHER -> main_state
            ELSE main_state)

\* The second loop: whether communicate stores main_state in a pin of the link.
TraceWrites(pin) == pin.pin_type # "Output"

Trace_communicate(ps, link) ==
    LET main_state == MainState(ps, link, 1, "Undefined") IN
    [p \in DOMAIN ps |->
        IF p \in Range(link) /\ TraceWrites(ps[p])
        THEN [ps[p] EXCEPT !.state = main_state]
        ELSE ps[p]]

----------------------------------------------------------------------------
(* Board::run                                                               *)

\* for trc in self.traces.iter_mut() { trc.communicate() }
RECURSIVE CommunicateAll(_, _, _)
CommunicateAll(ps, trs, i) ==
    IF i > Len(trs) THEN ps
    ELSE CommunicateAll(Trace_communicate(ps, trs[i]), trs, i + 1)

\* A socket pass that resolves the traces again after each chip.
SocketStepEager(ps, sk, c) == CommunicateAll(Socket_run(ps, sk, c), traces, 1)

\* One socket of the socket pass.
SocketStep(ps, sk, c) == Socket_run(ps, sk, c)

\* for skt in self.sockets.iter_mut() { skt.run(time_elapsed) }
RECURSIVE RunSockets(_, _, _)
RunSockets(ps, sk, c) ==
    IF c > Len(sk) THEN ps
    ELSE RunSockets(SocketStep(ps, sk, c), sk, c + 1)

\* The state of its IN pin that each chip finds when its turn comes.
RECURSIVE SeenBySockets(_, _, _)
SeenBySockets(ps, sk, c) ==
    IF c > Len(sk) THEN <<>>
    ELSE <<ps[<<c, ButtonIN>>].state>> \o SeenBySockets(SocketStep(ps, sk, c), sk, c + 1)

\* The pass before the trace pass.  Board::run has none: it starts with the traces.
ResetInputs(ps) == ps

Board_run(ps, trs, sk) == RunSockets(CommunicateAll(ResetInputs(ps), trs, 1), sk, 1)

----------------------------------------------------------------------------
(* The board specification: wire the board, then run it.                    *)

\* Board::new, with the sockets of the board under test plugged.
BoardInit ==
    /\ pins = InitialPins
    /\ sockets = BoardSockets
    /\ traces = <<>>
    /\ running = FALSE
    /\ pre = InitialPins
    /\ mid = InitialPins
    /\ seen = <<>>
    /\ ran = FALSE

Connects == IF traces = <<>> THEN 0
            ELSE LET RECURSIVE Sum(_)
                     Sum(i) == IF i = 0 THEN 0 ELSE Len(traces[i]) + Sum(i - 1)
                 IN Sum(Len(traces))

\* Board::new_trace
NewTrace ==
    /\ ~running
    /\ Connects < MaxConnects
    /\ IF traces = <<>> THEN TRUE ELSE traces[Len(traces)] # <<>>
    /\ traces' = Append(traces, <<>>)
    /\ UNCHANGED <<pins, sockets, running, pre, mid, seen, ran, notBoardVars>>

\* Trace::connect on the trace made last
Connect(p) ==
    /\ ~running
    /\ traces # <<>>
    /\ Connects < MaxConnects
    /\ traces' = [traces EXCEPT ![Len(traces)] = Append(@, p)]
    /\ UNCHANGED <<pins, sockets, running, pre, mid, seen, ran, notBoardVars>>

\* Button::press and Button::release
Press(c) ==
    /\ c \in Pressable
    /\ ~sockets[c].down
    /\ sockets' = [sockets EXCEPT ![c].down = TRUE]
    /\ UNCHANGED <<pins, traces, running, pre, mid, seen, ran, notBoardVars>>

Release(c) ==
    /\ c \in Pressable
    /\ sockets[c].down
    /\ sockets' = [sockets EXCEPT ![c].down = FALSE]
    /\ UNCHANGED <<pins, traces, running, pre, mid, seen, ran, notBoardVars>>

\* Chip::set_pin_state, called by the code that owns the board
SetPinState(p, st) ==
    /\ ~running
    /\ pins[p].state # st
    /\ pins' = [pins EXCEPT ![p].state = st]
    /\ UNCHANGED <<sockets, traces, running, pre, mid, seen, ran, notBoardVars>>

\* Socket::set_pin_type
SetPinType(p, pin_type) ==
    /\ ~running
    /\ pins[p].pin_type # pin_type
    /\ pins' = [pins EXCEPT ![p].pin_type = pin_type]
    /\ UNCHANGED <<sockets, traces, running, pre, mid, seen, ran, notBoardVars>>

\* Board::run
Run ==
    /\ traces # <<>>
    /\ running' = TRUE
    /\ pre' = pins
    /\ mid' = CommunicateAll(ResetInputs(pins), traces, 1)
    /\ seen' = SeenBySockets(mid', sockets, 1)
    /\ pins' = Board_run(pins, traces, sockets)
    /\ ran' = TRUE
    /\ UNCHANGED <<sockets, traces, notBoardVars>>

Next ==
    \/ NewTrace
    \/ \E p \in WirePins : Connect(p)
    \/ \E c \in Pressable : Press(c)
    \/ \E c \in Pressable : Release(c)
    \/ \E p \in DrivenPins, st \in States : SetPinState(p, st)
    \/ \E p \in RetypedPins, pin_type \in PinTypes : SetPinType(p, pin_type)
    \/ Run

----------------------------------------------------------------------------
(* Pin helpers of chip.rs and State conversions.                            *)

\* State::as_bool for the three logic levels
State_as_bool(st) == st = "High"

\* State::as_logic: Undefined reads as Low, Low and High as themselves; the
\* threshold (in tenths of a volt) decides Analog states only, which the pins
\* of this model never hold.
State_as_logic(st, threshold) == IF st = "High" THEN "High" ELSE "Low"

Pow2(i) == 2 ^ i

\* Pin::read: bit i of the sum is the boolean of pin i, least significant first.
RECURSIVE Pin_read_from(_, _)
Pin_read_from(ps, i) ==
    IF i > Len(ps) THEN 0
    ELSE (IF State_as_bool(ps[i].state) THEN Pow2(i - 1) ELSE 0) + Pin_read_from(ps, i + 1)

Pin_read(ps) == Pin_read_from(ps, 1)

\* Pin::read_threshold: the same over as_logic(input_threshold) of each pin.
RECURSIVE Pin_read_threshold_from(_, _, _)
Pin_read_threshold_from(ps, input_threshold, i) ==
    IF i > Len(ps) THEN 0
    ELSE (IF State_as_bool(State_as_logic(ps[i].state, input_threshold))
          THEN Pow2(i - 1) ELSE 0)
         + Pin_read_threshold_from(ps, input_threshold, i + 1)

Pin_read_threshold(ps, input_threshold) == Pin_read_threshold_from(ps, input_threshold, 1)

\* Pin::write: pin i takes State::from(bit i of value).
Pin_write(ps, value) ==
    [i \in DOMAIN ps |-> [ps[i] EXCEPT !.state = StateFromBool((value \div Pow2(i - 1)) % 2 = 1)]]

\* set_io_type of the memory chips
set_io_type(io, pin_type) == [i \in DOMAIN io |-> [io[i] EXCEPT !.pin_type = pin_type]]

\* The byte a caller has put on eight pins with Pin::write, -1 when some pin
\* holds no logic level.
Presented(ps) ==
    IF \A i \in DOMAIN ps : ps[i].state \in {"High", "Low"} THEN Pin_read(ps) ELSE -1

Bytes == 0..255

----------------------------------------------------------------------------
(* Ram256B                                                                  *)

\* The addresses and the bytes the caller puts on the pins of the RAM.
RamAddrs == {0, 90}
RamBytes == {60, 255}

\* What random::<u8>() may fill the array with at power-up: every cell the same
\* byte, or every cell its own address.
RandomFills == {[i \in Bytes |-> 0], [i \in Bytes |-> i]}

\* The levels the caller puts on VCC, CS, WE and OE.
DrivenLevels == {"High", "Low"}

Ram256B_build ==
    [powered |-> FALSE,
     ram |-> [i \in Bytes |-> 0],
     vcc |-> Pin_new("Input"),
     gnd |-> Pin_new("Output"),
     cs |-> Pin_new("Input"),
     we |-> Pin_new("Input"),
     oe |-> Pin_new("Input"),
     a |-> [i \in 1..8 |-> Pin_new("Input")],
     io |-> [i \in 1..8 |-> Pin_new("Floating")]]

\* A write branch that stores the byte at the address the IO pins spell.
Ram256B_writeSwapped(chip) ==
    LET addr == Pin_read_threshold(chip.io, 33)
        byte == Pin_read_threshold(chip.a, 33) % 256
    IN [chip EXCEPT !.io = set_io_type(chip.io, "Input"), !.ram[addr] = byte]

\* A write branch that stores the byte in the next cell as well.
Ram256B_writeTwoCells(chip) ==
    LET addr == Pin_read_threshold(chip.a, 33)
        byte == Pin_read_threshold(chip.io, 33) % 256
    IN [chip EXCEPT !.io = set_io_type(chip.io, "Input"),
                    !.ram[addr] = byte, !.ram[(addr + 1) % 256] = byte]

\* The write branch of Ram256B::run.
Ram256B_write(chip) ==
    LET addr == Pin_read_threshold(chip.a, 33)
        byte == Pin_read_threshold(chip.io, 33) % 256
    IN [chip EXCEPT !.io = set_io_type(chip.io, "Input"), !.ram[addr] = byte]

\* The read branch of Ram256B::run.
Ram256B_read(chip) ==
    LET addr == Pin_read_threshold(chip.a, 33)
    IN [chip EXCEPT !.io = Pin_write(set_io_type(chip.io, "Output"), chip.ram[addr])]

\* Ram256B::run; random is what random::<u8>() yields for each cell.
Ram256B_run(chip, random) ==
    IF State_as_logic(chip.vcc.state, 10) = "High"
    THEN LET up == [chip EXCEPT !.ram = IF chip.powered THEN chip.ram ELSE random,
                                !.powered = TRUE,
                                !.gnd.state = "Low"]
         IN IF up.cs.state = "Low"
            THEN IF up.we.state = "Low" THEN Ram256B_write(up)
                 ELSE IF up.oe.state = "Low" THEN Ram256B_read(up)
                 ELSE [up EXCEPT !.io = set_io_type(up.io, "Floating")]
            ELSE [up EXCEPT !.io = set_io_type(up.io, "Floating")]
    ELSE IF chip.powered
         THEN [chip EXCEPT !.io = set_io_type(chip.io, "Floating"), !.powered = FALSE]
         ELSE chip

RamInit ==
    /\ ramChip = Ram256B_build
    /\ ramWrote = <<>>
    /\ ramReadBack = <<>>

\* ram.vcc.state = ..., ram.cs.state = ..., ram.we.state = ..., ram.oe.state = ...
RamSetVcc(st) ==
    /\ ramChip.vcc.state # st
    /\ ramChip' = [ramChip EXCEPT !.vcc.state = st]
    /\ UNCHANGED <<ramWrote, ramReadBack, notRamVars>>

RamSetCs(st) ==
    /\ ramChip.cs.state # st
    /\ ramChip' = [ramChip EXCEPT !.cs.state = st]
    /\ UNCHANGED <<ramWrote, ramReadBack, notRamVars>>

RamSetWe(st) ==
    /\ ramChip.we.state # st
    /\ ramChip' = [ramChip EXCEPT !.we.state = st]
    /\ UNCHANGED <<ramWrote, ramReadBack, notRamVars>>

RamSetOe(st) ==
    /\ ramChip.oe.state # st
    /\ ramChip' = [ramChip EXCEPT !.oe.state = st]
    /\ UNCHANGED <<ramWrote, ramReadBack, notRamVars>>

\* Pin::write(&mut [a0 .. a7], a)
RamWriteAddr(a) ==
    /\ Presented(ramChip.a) # a
    /\ ramChip' = [ramChip EXCEPT !.a = Pin_write(ramChip.a, a)]
    /\ UNCHANGED <<ramWrote, ramReadBack, notRamVars>>

\* Pin::write(&mut [io0 .. io7], b)
RamWriteIo(b) ==
    /\ Presented(ramChip.io) # b
    /\ ramChip' = [ramChip EXCEPT !.io = Pin_write(ramChip.io, b)]
    /\ UNCHANGED <<ramWrote, ramReadBack, notRamVars>>

\* The pins as a write tick of the RAM needs them, and as a read tick does.
WriteTick(chip) ==
    /\ chip.vcc.state = "High" /\ chip.cs.state = "Low" /\ chip.we.state = "Low"
    /\ Presented(chip.a) # -1 /\ Presented(chip.io) # -1

ReadTick(chip) ==
    /\ chip.vcc.state = "High" /\ chip.cs.state = "Low" /\ chip.we.state = "High"
    /\ chip.oe.state = "Low" /\ Presented(chip.a) # -1

\* ram.run(..)
RamRun ==
    \E random \in RandomFills :
        /\ ramChip' = Ram256B_run(ramChip, random)
        /\ ramWrote' = IF WriteTick(ramChip)
                       THEN <<Presented(ramChip.a), Presented(ramChip.io)>> ELSE <<>>
        /\ ramReadBack' = IF ramWrote # <<>> /\ ReadTick(ramChip)
                             /\ Presented(ramChip.a) = ramWrote[1]
                          THEN <<ramWrote[1], ramWrote[2], Pin_read(ramChip'.io)>> ELSE <<>>
        /\ UNCHANGED notRamVars

NextRam ==
    \/ \E st \in DrivenLevels : RamSetVcc(st)
    \/ \E st \in DrivenLevels : RamSetCs(st)
    \/ \E st \in DrivenLevels : RamSetWe(st)
    \/ \E st \in DrivenLevels : RamSetOe(st)
    \/ \E a \in RamAddrs : RamWriteAddr(a)
    \/ \E b \in RamBytes : RamWriteIo(b)
    \/ RamRun

----------------------------------------------------------------------------
(* Rom256B                                                                  *)

\* The images given to set_data, and the addresses the caller asks for.
RomImages == {<<>>, <<169, 90, 0, 255>>}
RomAddrs == {0, 1, 3}
RomBytes == {60, 255}

Rom256B_build ==
    [powered |-> FALSE,
     rom |-> [i \in Bytes |-> 0],
     vcc |-> Pin_new("Input"),
     gnd |-> Pin_new("Output"),
     cs |-> Pin_new("Input"),
     oe |-> Pin_new("Input"),
     a |-> [i \in 1..8 |-> Pin_new("Input")],
     io |-> [i \in 1..8 |-> Pin_new("Floating")]]

\* Rom256B::set_data: the data, cut or padded with zeros to 256 bytes.
Rom256B_set_data(chip, data) ==
    [chip EXCEPT !.rom = [i \in Bytes |-> IF i < Len(data) THEN data[i + 1] ELSE 0]]

\* A power-up that clears the array, as a RAM's first power-up refills it.
Rom256B_power_up_cleared(rom) == [i \in Bytes |-> 0]

\* What Rom256B::run does to the rom array when power comes up: nothing.
Rom256B_power_up(rom) == rom

\* Rom256B::run
Rom256B_run(chip) ==
    IF State_as_logic(chip.vcc.state, 10) = "High"
    THEN LET up == [chip EXCEPT !.rom = IF chip.powered THEN chip.rom
                                        ELSE Rom256B_power_up(chip.rom),
                                !.powered = TRUE,
                                !.gnd.state = "Low"]
         IN IF up.cs.state = "Low"
            THEN IF up.oe.state = "Low"
                 THEN LET addr == Pin_read_threshold(up.a, 33)
                      IN [up EXCEPT !.io = Pin_write(set_io_type(up.io, "Output"), up.rom[addr])]
                 ELSE [up EXCEPT !.io = set_io_type(up.io, "Floating")]
            ELSE [up EXCEPT !.io = set_io_type(up.io, "Floating")]
    ELSE IF chip.powered
         THEN [chip EXCEPT !.io = set_io_type(chip.io, "Floating"), !.powered = FALSE]
         ELSE chip

RomInit ==
    /\ romChip \in {Rom256B_set_data(Rom256B_build, data) : data \in RomImages}
    /\ romBuilt = romChip.rom

RomSetVcc(st) ==
    /\ romChip.vcc.state # st
    /\ romChip' = [romChip EXCEPT !.vcc.state = st]
    /\ UNCHANGED <<romBuilt, notRomVars>>

RomSetCs(st) ==
    /\ romChip.cs.state # st
    /\ romChip' = [romChip EXCEPT !.cs.state = st]
    /\ UNCHANGED <<romBuilt, notRomVars>>

RomSetOe(st) ==
    /\ romChip.oe.state # st
    /\ romChip' = [romChip EXCEPT !.oe.state = st]
    /\ UNCHANGED <<romBuilt, notRomVars>>

RomWriteAddr(a) ==
    /\ Presented(romChip.a) # a
    /\ romChip' = [romChip EXCEPT !.a = Pin_write(romChip.a, a)]
    /\ UNCHANGED <<romBuilt, notRomVars>>

RomWriteIo(b) ==
    /\ Presented(romChip.io) # b
    /\ romChip' = [romChip EXCEPT !.io = Pin_write(romChip.io, b)]
    /\ UNCHANGED <<romBuilt, notRomVars>>

\* rom.run(..)
RomRun ==
    /\ romChip' = Rom256B_run(romChip)
    /\ UNCHANGED <<romBuilt, notRomVars>>

NextRom ==
    \/ \E st \in States : RomSetVcc(st)
    \/ \E st \in States : RomSetCs(st)
    \/ \E st \in States : RomSetOe(st)
    \/ \E a \in RomAddrs : RomWriteAddr(a)
    \/ \E b \in RomBytes : RomWriteIo(b)
    \/ RomRun

----------------------------------------------------------------------------
(* The 6502 opcodes: AddressingMode, Opcode, the byte tables.               *)

\* An Opcode is [op, mode, arg]: the variant, the AddressingMode variant it
\* holds ("None" for a variant without a field, "Relative" for the i8 of a
\* branch), and the operand (0 where the mode has none).
Modes == {"Implicit", "Immediate", "ZeroPage", "Absolute", "Indirect",
          "ZeroPageIndexedX", "ZeroPageIndexedY", "AbsoluteIndexedX",
          "AbsoluteIndexedY", "IndexedIndirect", "IndirectIndexed"}

U8Modes == {"Immediate", "ZeroPage", "ZeroPageIndexedX", "ZeroPageIndexedY",
            "IndexedIndirect", "IndirectIndexed"}

U16Modes == {"Absolute", "Indirect", "AbsoluteIndexedX", "AbsoluteIndexedY"}

\* The variants of Opcode that hold an AddressingMode, an i8, nothing.
ModeOps == {"ADC", "AND", "ASL", "BIT", "CMP", "CPX", "CPY", "DEC", "EOR", "INC",
            "JMP", "JSR", "LDA", "LDX", "LDY", "LSR", "ORA", "ROL", "ROR", "SBC",
            "STA", "STX", "STY"}

BranchOps == {"BPL", "BMI", "BVC", "BVS", "BCC", "BCS", "BNE", "BEQ"}

UnitOps == {"BRK", "CLC", "SEC", "CLI", "SEI", "CLV", "NOP", "TAX", "TXA", "DEX",
            "INX", "TAY", "TYA", "DEY", "INY", "RTI", "RTS", "TXS", "TSX", "PHA",
            "PLA", "PHP", "PLP"}

Op(op, mode, arg) == [op |-> op, mode |-> mode, arg |-> arg]

\* The operands the model gives to a u8, a u16 and an i8 field.
U8Args == {0, 90, 255}
U16Args == {0, 255, 4660, 65535}
I8Args == {-128, -1, 0, 127}

ArgsOf(mode) ==
    IF mode \in U8Modes THEN U8Args
    ELSE IF mode \in U16Modes THEN U16Args
    ELSE IF mode = "Relative" THEN I8Args
    ELSE {0}

\* Every Opcode value over those operands.
Opcodes ==
    UNION {{Op(op, mode, arg) : op \in ModeOps, arg \in ArgsOf(mode)} : mode \in Modes}
    \cup {Op(op, "Relative", arg) : op \in BranchOps, arg \in I8Args}
    \cup {Op(op, "None", 0) : op \in UnitOps}

\* arg as i8, a as u8
AsI8(arg) == IF arg >= 128 THEN arg - 256 ELSE arg
AsU8(a) == (a + 256) % 256

\* AddressingMode::set_arg1 and Opcode::set_arg1
Opcode_set_arg1(o, arg) ==
    IF o.mode \in U8Modes THEN [o EXCEPT !.arg = arg]
    ELSE IF o.mode \in U16Modes THEN [o EXCEPT !.arg = arg]
    ELSE IF o.mode = "Relative" THEN [o EXCEPT !.arg = AsI8(arg)]
    ELSE o

\* AddressingMode::set_arg2 and Opcode::set_arg2: *a += (arg as u16) << 8
Opcode_set_arg2(o, arg) ==
    IF o.mode \in U16Modes THEN [o EXCEPT !.arg = (o.arg + arg * 256) % 65536]
    ELSE o

\* AddressingMode::require_arg1, require_arg2 and Opcode::require_arg1, require_arg2
Opcode_require_arg1(o) == o.mode \in U8Modes \cup U16Modes \cup {"Relative"}
Opcode_require_arg2(o) == o.mode \in U16Modes

\* From<u8> for Opcode: the match arms, in source order.
DecTable ==
    \H61 :> <<"ADC", "IndexedIndirect">> @@ \H65 :> <<"ADC", "ZeroPage">>
    @@ \H69 :> <<"ADC", "Immediate">> @@ \H6D :> <<"ADC", "Absolute">>
    @@ \H71 :> <<"ADC", "IndirectIndexed">> @@ \H75 :> <<"ADC", "ZeroPageIndexedX">>
    @@ \H79 :> <<"ADC", "AbsoluteIndexedY">> @@ \H7D :> <<"ADC", "AbsoluteIndexedX">>
    @@ \H21 :> <<"AND", "IndexedIndirect">> @@ \H25 :> <<"AND", "ZeroPage">>
    @@ \H29 :> <<"AND", "Immediate">> @@ \H2D :> <<"AND", "Absolute">>
    @@ \H31 :> <<"AND", "IndirectIndexed">> @@ \H35 :> <<"AND", "ZeroPageIndexedX">>
    @@ \H39 :> <<"AND", "AbsoluteIndexedY">> @@ \H3D :> <<"AND", "AbsoluteIndexedX">>
    @@ \H06 :> <<"ASL", "ZeroPage">> @@ \H0A :> <<"ASL", "Implicit">>
    @@ \H0E :> <<"ASL", "ZeroPageIndexedX">> @@ \H16 :> <<"ASL", "Absolute">>
    @@ \H1E :> <<"ASL", "AbsoluteIndexedX">> @@ \H24 :> <<"BIT", "ZeroPage">>
    @@ \H2C :> <<"BIT", "Absolute">> @@ \H10 :> <<"BPL", "Relative">>
    @@ \H30 :> <<"BMI", "Relative">> @@ \H50 :> <<"BVC", "Relative">>
    @@ \H70 :> <<"BVS", "Relative">> @@ \H90 :> <<"BCC", "Relative">>
    @@ \HB0 :> <<"BCS", "Relative">> @@ \HD0 :> <<"BNE", "Relative">>
    @@ \HF0 :> <<"BEQ", "Relative">> @@ \H00 :> <<"BRK", "None">>
    @@ \HC1 :> <<"CMP", "IndexedIndirect">> @@ \HC5 :> <<"CMP", "ZeroPage">>
    @@ \HC9 :> <<"CMP", "Immediate">> @@ \HCD :> <<"CMP", "Absolute">>
    @@ \HD1 :> <<"CMP", "IndirectIndexed">> @@ \HD5 :> <<"CMP", "ZeroPageIndexedX">>
    @@ \HD9 :> <<"CMP", "AbsoluteIndexedY">> @@ \HDD :> <<"CMP", "AbsoluteIndexedX">>
    @@ \HE0 :> <<"CPX", "Immediate">> @@ \HE4 :> <<"CPX", "ZeroPage">>
    @@ \HEC :> <<"CPX", "Absolute">> @@ \HC0 :> <<"CPY", "Immediate">>
    @@ \HC4 :> <<"CPY", "ZeroPage">> @@ \HCC :> <<"CPY", "Absolute">>
    @@ \HC6 :> <<"DEC", "ZeroPage">> @@ \HCE :> <<"DEC", "Absolute">>
    @@ \HD6 :> <<"DEC", "ZeroPageIndexedX">> @@ \HDE :> <<"DEC", "AbsoluteIndexedX">>
    @@ \H41 :> <<"EOR", "IndexedIndirect">> @@ \H45 :> <<"EOR", "ZeroPage">>
    @@ \H49 :> <<"EOR", "Immediate">> @@ \H4D :> <<"EOR", "Absolute">>
    @@ \H51 :> <<"EOR", "IndirectIndexed">> @@ \H55 :> <<"EOR", "ZeroPageIndexedX">>
    @@ \H59 :> <<"EOR", "AbsoluteIndexedY">> @@ \H5D :> <<"EOR", "AbsoluteIndexedX">>
    @@ \H18 :> <<"CLC", "None">> @@ \H38 :> <<"SEC", "None">>
    @@ \H58 :> <<"CLI", "None">> @@ \H78 :> <<"SEI", "None">>
    @@ \HB8 :> <<"CLV", "None">> @@ \HE6 :> <<"INC", "ZeroPage">>
    @@ \HEE :> <<"INC", "Absolute">> @@ \HF6 :> <<"INC", "ZeroPageIndexedX">>
    @@ \HFE :> <<"INC", "AbsoluteIndexedX">> @@ \H4C :> <<"JMP", "Absolute">>
    @@ \H6C :> <<"JMP", "Indirect">> @@ \H20 :> <<"JSR", "Absolute">>
    @@ \HA1 :> <<"LDA", "IndexedIndirect">> @@ \HA5 :> <<"LDA", "ZeroPage">>
    @@ \HA9 :> <<"LDA", "Immediate">> @@ \HAD :> <<"LDA", "Absolute">>
    @@ \HB1 :> <<"LDA", "IndirectIndexed">> @@ \HB5 :> <<"LDA", "ZeroPageIndexedX">>
    @@ \HB9 :> <<"LDA", "AbsoluteIndexedY">> @@ \HBD :> <<"LDA", "AbsoluteIndexedX">>
    @@ \HA2 :> <<"LDX", "Immediate">> @@ \HA6 :> <<"LDX", "ZeroPage">>
    @@ \HAE :> <<"LDX", "Absolute">> @@ \HB6 :> <<"LDX", "ZeroPageIndexedY">>
    @@ \HBE :> <<"LDX", "AbsoluteIndexedY">> @@ \HA0 :> <<"LDY", "Immediate">>
    @@ \HA4 :> <<"LDY", "ZeroPage">> @@ \HAC :> <<"LDY", "Absolute">>
    @@ \HB4 :> <<"LDY", "ZeroPageIndexedY">> @@ \HBC :> <<"LDY", "AbsoluteIndexedY">>
    @@ \H4A :> <<"LSR", "Implicit">> @@ \H46 :> <<"LSR", "ZeroPage">>
    @@ \H4E :> <<"LSR", "Absolute">> @@ \H56 :> <<"LSR", "ZeroPageIndexedX">>
    @@ \H5E :> <<"LSR", "AbsoluteIndexedX">> @@ \HEA :> <<"NOP", "None">>
    @@ \H01 :> <<"ORA", "IndexedIndirect">> @@ \H05 :> <<"ORA", "ZeroPage">>
    @@ \H09 :> <<"ORA", "Immediate">> @@ \H0D :> <<"ORA", "Absolute">>
    @@ \H11 :> <<"ORA", "IndirectIndexed">> @@ \H15 :> <<"ORA", "ZeroPageIndexedX">>
    @@ \H19 :> <<"ORA", "AbsoluteIndexedY">> @@ \H1D :> <<"ORA", "AbsoluteIndexedX">>
    @@ \HAA :> <<"TAX", "None">> @@ \H8A :> <<"TXA", "None">>
    @@ \HCA :> <<"DEX", "None">> @@ \HE8 :> <<"INX", "None">>
    @@ \HA8 :> <<"TAY", "None">> @@ \H98 :> <<"TYA", "None">>
    @@ \H88 :> <<"DEY", "None">> @@ \HC8 :> <<"INY", "None">>
    @@ \H2A :> <<"ROL", "Implicit">> @@ \H26 :> <<"ROL", "ZeroPage">>
    @@ \H2E :> <<"ROL", "Absolute">> @@ \H36 :> <<"ROL", "ZeroPageIndexedX">>
    @@ \H3E :> <<"ROL", "AbsoluteIndexedX">> @@ \H6A :> <<"ROR", "Implicit">>
    @@ \H66 :> <<"ROR", "ZeroPage">> @@ \H6E :> <<"ROR", "Absolute">>
    @@ \H76 :> <<"ROR", "ZeroPageIndexedX">> @@ \H7E :> <<"ROR", "AbsoluteIndexedX">>
    @@ \H40 :> <<"RTI", "None">> @@ \H60 :> <<"RTS", "None">>
    @@ \HE1 :> <<"SBC", "IndexedIndirect">> @@ \HE5 :> <<"SBC", "ZeroPage">>
    @@ \HE9 :> <<"SBC", "Immediate">> @@ \HED :> <<"SBC", "Absolute">>
    @@ \HF1 :> <<"SBC", "IndirectIndexed">> @@ \HF5 :> <<"SBC", "ZeroPageIndexedX">>
    @@ \HF9 :> <<"SBC", "AbsoluteIndexedY">> @@ \HFD :> <<"SBC", "AbsoluteIndexedX">>
    @@ \H81 :> <<"STA", "IndexedIndirect">> @@ \H85 :> <<"STA", "ZeroPage">>
    @@ \H8D :> <<"STA", "Absolute">> @@ \H91 :> <<"STA", "IndirectIndexed">>
    @@ \H95 :> <<"STA", "ZeroPageIndexedX">> @@ \H99 :> <<"STA", "AbsoluteIndexedY">>
    @@ \H9D :> <<"STA", "AbsoluteIndexedX">> @@ \H9A :> <<"TXS", "None">>
    @@ \HBA :> <<"TSX", "None">> @@ \H48 :> <<"PHA", "None">>
    @@ \H68 :> <<"PLA", "None">> @@ \H08 :> <<"PHP", "None">>
    @@ \H28 :> <<"PLP", "None">> @@ \H86 :> <<"STX", "ZeroPage">>
    @@ \H8E :> <<"STX", "Absolute">> @@ \H96 :> <<"STX", "ZeroPageIndexedY">>
    @@ \H84 :> <<"STY", "ZeroPage">> @@ \H8C :> <<"STY", "Absolute">>
    @@ \H94 :> <<"STY", "ZeroPageIndexedY">>

\* From<u8> for Opcode; a byte without an arm is NOP.
Opcode_from(value) ==
    IF value \in DOMAIN DecTable
    THEN Op(DecTable[value][1], DecTable[value][2], 0)
    ELSE Op("NOP", "None", 0)

\* TryFrom<Opcode> for Vec<u8>: the opcode byte of each arm that returns Ok, in
\* source order.
EncTable ==
    <<"ADC", "IndexedIndirect">> :> \H61 @@ <<"ADC", "ZeroPage">> :> \H65
    @@ <<"ADC", "Immediate">> :> \H69 @@ <<"ADC", "Absolute">> :> \H6D
    @@ <<"ADC", "IndirectIndexed">> :> \H71 @@ <<"ADC", "ZeroPageIndexedX">> :> \H75
    @@ <<"ADC", "AbsoluteIndexedY">> :> \H79 @@ <<"ADC", "AbsoluteIndexedX">> :> \H7D
    @@ <<"AND", "IndexedIndirect">> :> \H21 @@ <<"AND", "ZeroPage">> :> \H25
    @@ <<"AND", "Immediate">> :> \H29 @@ <<"AND", "Absolute">> :> \H2D
    @@ <<"AND", "IndirectIndexed">> :> \H31 @@ <<"AND", "ZeroPageIndexedX">> :> \H35
    @@ <<"AND", "AbsoluteIndexedY">> :> \H39 @@ <<"AND", "AbsoluteIndexedX">> :> \H3D
    @@ <<"ASL", "ZeroPage">> :> \H06 @@ <<"ASL", "Implicit">> :> \H0A
    @@ <<"ASL", "ZeroPageIndexedX">> :> \H0E @@ <<"ASL", "Absolute">> :> \H16
    @@ <<"ASL", "AbsoluteIndexedX">> :> \H1E @@ <<"BIT", "ZeroPage">> :> \H24
    @@ <<"BIT", "Absolute">> :> \H2C @@ <<"BPL", "Relative">> :> \H10
    @@ <<"BMI", "Relative">> :> \H30 @@ <<"BVC", "Relative">> :> \H50
    @@ <<"BVS", "Relative">> :> \H70 @@ <<"BCC", "Relative">> :> \H90
    @@ <<"BCS", "Relative">> :> \HB0 @@ <<"BNE", "Relative">> :> \HD0
    @@ <<"BEQ", "Relative">> :> \HF0 @@ <<"BRK", "None">> :> \H00
    @@ <<"CMP", "IndexedIndirect">> :> \HC1 @@ <<"CMP", "ZeroPage">> :> \HC5
    @@ <<"CMP", "Immediate">> :> \HC9 @@ <<"CMP", "Absolute">> :> \HCD
    @@ <<"CMP", "IndirectIndexed">> :> \HD1 @@ <<"CMP", "ZeroPageIndexedX">> :> \HD5
    @@ <<"CMP", "AbsoluteIndexedY">> :> \HD9 @@ <<"CMP", "AbsoluteIndexedX">> :> \HDD
    @@ <<"CPX", "Immediate">> :> \HE0 @@ <<"CPX", "ZeroPage">> :> \HE4
    @@ <<"CPX", "Absolute">> :> \HEC @@ <<"CPY", "Immediate">> :> \HC0
    @@ <<"CPY", "ZeroPage">> :> \HC4 @@ <<"CPY", "Absolute">> :> \HCC
    @@ <<"DEC", "ZeroPage">> :> \HC6 @@ <<"DEC", "Absolute">> :> \HCE
    @@ <<"DEC", "ZeroPageIndexedX">> :> \HD6 @@ <<"DEC", "AbsoluteIndexedX">> :> \HDE
    @@ <<"EOR", "IndexedIndirect">> :> \H41 @@ <<"EOR", "ZeroPage">> :> \H45
    @@ <<"EOR", "Immediate">> :> \H49 @@ <<"EOR", "Absolute">> :> \H4D
    @@ <<"EOR", "IndirectIndexed">> :> \H51 @@ <<"EOR", "ZeroPageIndexedX">> :> \H55
    @@ <<"EOR", "AbsoluteIndexedY">> :> \H59 @@ <<"EOR", "AbsoluteIndexedX">> :> \H5D
    @@ <<"CLC", "None">> :> \H18 @@ <<"SEC", "None">> :> \H38
    @@ <<"CLI", "None">> :> \H58 @@ <<"SEI", "None">> :> \H78
    @@ <<"CLV", "None">> :> \HB8 @@ <<"INC", "ZeroPage">> :> \HE6
    @@ <<"INC", "Absolute">> :> \HEE @@ <<"INC", "ZeroPageIndexedX">> :> \HF6
    @@ <<"INC", "AbsoluteIndexedX">> :> \HFE @@ <<"JMP", "Absolute">> :> \H4C
    @@ <<"JMP", "Indirect">> :> \H6C @@ <<"JSR", "Absolute">> :> \H20
    @@ <<"LDA", "IndexedIndirect">> :> \HA1 @@ <<"LDA", "ZeroPage">> :> \HA5
    @@ <<"LDA", "Immediate">> :> \HA9 @@ <<"LDA", "Absolute">> :> \HAD
    @@ <<"LDA", "IndirectIndexed">> :> \HB1 @@ <<"LDA", "ZeroPageIndexedX">> :> \HB5
    @@ <<"LDA", "AbsoluteIndexedY">> :> \HB9 @@ <<"LDA", "AbsoluteIndexedX">> :> \HBD
    @@ <<"LDX", "Immediate">> :> \HA2 @@ <<"LDX", "ZeroPage">> :> \HA6
    @@ <<"LDX", "Absolute">> :> \HAE @@ <<"LDX", "ZeroPageIndexedY">> :> \HB6
    @@ <<"LDX", "AbsoluteIndexedY">> :> \HBE @@ <<"LDY", "Immediate">> :> \HA0
    @@ <<"LDY", "ZeroPage">> :> \HA4 @@ <<"LDY", "Absolute">> :> \HAC
    @@ <<"LDY", "ZeroPageIndexedY">> :> \HB4 @@ <<"LDY", "AbsoluteIndexedY">> :> \HBC
    @@ <<"LSR", "Implicit">> :> \H4A @@ <<"LSR", "ZeroPage">> :> \H46
    @@ <<"LSR", "Absolute">> :> \H4E @@ <<"LSR", "ZeroPageIndexedX">> :> \H56
    @@ <<"LSR", "AbsoluteIndexedX">> :> \H5E @@ <<"NOP", "None">> :> \HEA
    @@ <<"ORA", "IndexedIndirect">> :> \H01 @@ <<"ORA", "ZeroPage">> :> \H05
    @@ <<"ORA", "Immediate">> :> \H09 @@ <<"ORA", "Absolute">> :> \H0D
    @@ <<"ORA", "IndirectIndexed">> :> \H11 @@ <<"ORA", "ZeroPageIndexedX">> :> \H15
    @@ <<"ORA", "AbsoluteIndexedY">> :> \H19 @@ <<"ORA", "AbsoluteIndexedX">> :> \H1D
    @@ <<"TAX", "None">> :> \HAA @@ <<"TXA", "None">> :> \H8A
    @@ <<"DEX", "None">> :> \HCA @@ <<"INX", "None">> :> \HE8
    @@ <<"TAY", "None">> :> \HA8 @@ <<"TYA", "None">> :> \H98
    @@ <<"DEY", "None">> :> \H88 @@ <<"INY", "None">> :> \HC8
    @@ <<"ROL", "Implicit">> :> \H2A @@ <<"ROL", "ZeroPage">> :> \H26
    @@ <<"ROL", "Absolute">> :> \H2E @@ <<"ROL", "ZeroPageIndexedX">> :> \H36
    @@ <<"ROL", "AbsoluteIndexedX">> :> \H3E @@ <<"ROR", "Implicit">> :> \H6A
    @@ <<"ROR", "ZeroPage">> :> \H66 @@ <<"ROR", "Absolute">> :> \H6E
    @@ <<"ROR", "ZeroPageIndexedX">> :> \H76 @@ <<"ROR", "AbsoluteIndexedX">> :> \H7E
    @@ <<"RTI", "None">> :> \H40 @@ <<"RTS", "None">> :> \H60
    @@ <<"SBC", "IndexedIndirect">> :> \HE1 @@ <<"SBC", "ZeroPage">> :> \HE5
    @@ <<"SBC", "Immediate">> :> \HE9 @@ <<"SBC", "Absolute">> :> \HED
    @@ <<"SBC", "IndirectIndexed">> :> \HF1 @@ <<"SBC", "ZeroPageIndexedX">> :> \HF5
    @@ <<"SBC", "AbsoluteIndexedY">> :> \HF9 @@ <<"SBC", "AbsoluteIndexedX">> :> \HFD
    @@ <<"STA", "IndexedIndirect">> :> \H81 @@ <<"STA", "ZeroPage">> :> \H85
    @@ <<"STA", "Absolute">> :> \H8D @@ <<"STA", "IndirectIndexed">> :> \H91
    @@ <<"STA", "ZeroPageIndexedX">> :> \H95 @@ <<"STA", "AbsoluteIndexedY">> :> \H99
    @@ <<"STA", "AbsoluteIndexedX">> :> \H9D @@ <<"TXS", "None">> :> \H9A
    @@ <<"TSX", "None">> :> \HBA @@ <<"PHA", "None">> :> \H48
    @@ <<"PLA", "None">> :> \H68 @@ <<"PHP", "None">> :> \H08
    @@ <<"PLP", "None">> :> \H28 @@ <<"STX", "ZeroPage">> :> \H86
    @@ <<"STX", "Absolute">> :> \H8E @@ <<"STX", "ZeroPageIndexedY">> :> \H96
    @@ <<"STY", "ZeroPage">> :> \H84 @@ <<"STY", "Absolute">> :> \H8C
    @@ <<"STY", "ZeroPageIndexedY">> :> \H94

\* opcode_with_u16
opcode_with_u16(opcode, arg) == <<opcode, arg % 256, arg \div 256>>

Ok(bytes) == [ok |-> TRUE, bytes |-> bytes, err |-> ""]
Err(err) == [ok |-> FALSE, bytes |-> <<>>, err |-> err]
NoResult == Err("")

\* TryFrom<Opcode> for Vec<u8>
Vec_try_from(o) ==
    IF <<o.op, o.mode>> \in DOMAIN EncTable
    THEN LET opcode == EncTable[<<o.op, o.mode>>] IN
         IF o.mode \in U16Modes THEN Ok(opcode_with_u16(opcode, o.arg))
         ELSE IF o.mode \in U8Modes THEN Ok(<<opcode, o.arg>>)
         ELSE IF o.mode = "Relative" THEN Ok(<<opcode, AsU8(o.arg)>>)
         ELSE Ok(<<opcode>>)
    ELSE Err("InvalidAddressMode")

\* Assembler::assemble: the encodings appended in order; the first Err returns.
RECURSIVE Assembler_assemble(_)
Assembler_assemble(code) ==
    IF code = <<>> THEN Ok(<<>>)
    ELSE LET one == Vec_try_from(Head(code)) IN
         IF ~one.ok THEN one
         ELSE LET rest == Assembler_assemble(Tail(code)) IN
              IF rest.ok THEN Ok(one.bytes \o rest.bytes) ELSE rest

----------------------------------------------------------------------------
(* Encoding one instruction and decoding it again.                          *)

NoOpcode == Op("", "None", 0)

OpInit ==
    /\ opOne = NoOpcode
    /\ opEnc = NoResult
    /\ opDec = NoOpcode
    /\ opStage = 0

\* Vec::<u8>::try_from(o)
Encode(o) ==
    /\ opOne = NoOpcode /\ opStage = 0
    /\ opOne' = o
    /\ opEnc' = Vec_try_from(o)
    /\ opDec' = NoOpcode
    /\ opStage' = 0
    /\ UNCHANGED notOpVars

\* Opcode::from on the first byte of the encoding
DecodeFirst ==
    /\ opEnc.ok /\ opStage = 0
    /\ opDec' = Opcode_from(opEnc.bytes[1])
    /\ opStage' = 1
    /\ UNCHANGED <<opOne, opEnc, notOpVars>>

\* set_arg1 with the second byte, where the decoded opcode requires it
SetArg1 ==
    /\ opEnc.ok /\ opStage = 1 /\ Len(opEnc.bytes) >= 2
    /\ Opcode_require_arg1(opDec)
    /\ opDec' = Opcode_set_arg1(opDec, opEnc.bytes[2])
    /\ opStage' = 2
    /\ UNCHANGED <<opOne, opEnc, notOpVars>>

\* set_arg2 with the third byte, where the decoded opcode requires it
SetArg2 ==
    /\ opEnc.ok /\ opStage = 2 /\ Len(opEnc.bytes) >= 3
    /\ Opcode_require_arg2(opDec)
    /\ opDec' = Opcode_set_arg2(opDec, opEnc.bytes[3])
    /\ opStage' = 3
    /\ UNCHANGED <<opOne, opEnc, notOpVars>>

\* Opcode::from on a byte that comes from no encoding
DecodeByte(value) ==
    /\ opOne = NoOpcode /\ opStage = 0
    /\ opOne' = NoOpcode
    /\ opEnc' = NoResult
    /\ opDec' = Opcode_from(value)
    /\ opStage' = 1
    /\ UNCHANGED notOpVars

NextOp ==
    \/ \E o \in Opcodes : Encode(o)
    \/ DecodeFirst
    \/ SetArg1
    \/ SetArg2
    \/ \E value \in Bytes : DecodeByte(value)

----------------------------------------------------------------------------
(* Assembling a program.                                                    *)

\* Programs of at most this many instructions.
MaxCode == 2

\* The first instruction of a program is any Opcode variant; the ones after it
\* come from this sample of accepted and refused instructions.
FirstOpcodes == {o \in Opcodes : o.arg \in {0}}
MoreOpcodes == {Op("LDA", "Immediate", 90), Op("STA", "Absolute", 4660),
                Op("ADC", "Implicit", 0), Op("LDY", "ZeroPageIndexedX", 90),
                Op("LDY", "ZeroPageIndexedY", 90), Op("BNE", "Relative", -1),
                Op("NOP", "None", 0), Op("JMP", "Immediate", 0)}

AsmInit ==
    /\ asmCode = <<>>
    /\ asmResult = NoResult
    /\ asmDone = FALSE

\* The caller builds the slice of Opcodes.
AsmFirst(o) ==
    /\ ~asmDone /\ asmCode = <<>>
    /\ asmCode' = <<o>>
    /\ UNCHANGED <<asmResult, asmDone, notAsmVars>>

AsmPush(o) ==
    /\ ~asmDone /\ asmCode # <<>> /\ Len(asmCode) < MaxCode
    /\ asmCode' = Append(asmCode, o)
    /\ UNCHANGED <<asmResult, asmDone, notAsmVars>>

\* Assembler::assemble(&code)
Assemble ==
    /\ ~asmDone
    /\ asmResult' = Assembler_assemble(asmCode)
    /\ asmDone' = TRUE
    /\ UNCHANGED <<asmCode, notAsmVars>>

NextAsm ==
    \/ \E o \in FirstOpcodes : AsmFirst(o)
    \/ \E o \in MoreOpcodes : AsmPush(o)
    \/ Assemble

----------------------------------------------------------------------------
(* Nes6502: the registers, the pins, the helpers of the CPU.                *)

\* The flags of StatusRegister
StatusRegister_N == 128
StatusRegister_V == 64
StatusRegister_B == 16
StatusRegister_D == 8
StatusRegister_I == 4
StatusRegister_Z == 2
StatusRegister_C == 1

\* StatusRegister::contains and StatusRegister::set for one flag
StatusRegister_contains(p, flag) == (p \div flag) % 2 = 1

StatusRegister_set(p, flag, value) ==
    IF value THEN (IF StatusRegister_contains(p, flag) THEN p ELSE p + flag)
    ELSE (IF StatusRegister_contains(p, flag) THEN p - flag ELSE p)

\* The u8 operators &, |, ^ and !, over the sets of the bits that are 1
Bit(v, i) == (v \div Pow2(i)) % 2

BitsOf(v) == {i \in 0..7 : Bit(v, i) = 1}

FromBits(S) ==
    LET w(i) == IF i \in S THEN Pow2(i) ELSE 0
    IN w(0) + w(1) + w(2) + w(3) + w(4) + w(5) + w(6) + w(7)

BitAnd(a, b) == FromBits(BitsOf(a) \cap BitsOf(b))
BitOr(a, b) == FromBits(BitsOf(a) \cup BitsOf(b))
BitXor(a, b) == FromBits((BitsOf(a) \cup BitsOf(b)) \ (BitsOf(a) \cap BitsOf(b)))
BitNot(v) == 255 - v

\* Reg<u8> and Reg<u16>: inc, dec and the arithmetic operators wrap at the width
\* of the register.
Reg8(v) == (v + 256) % 256
Reg16(v) == (v + 65536) % 65536

\* CpuState: the variant, and the Opcode and the step of the variants that hold
\* them.
CpuState(name, opcode, step) == [name |-> name, opcode |-> opcode, step |-> step]

\* Nes6502::build; aborted is the panic a call of run ended with, "" while every
\* call has returned.
Nes6502_build ==
    [powered |-> FALSE,
     clock |-> FALSE,
     state |-> CpuState("Reset", NoOpcode, 0),
     registers |-> [a |-> 0, x |-> 0, y |-> 0, pc |-> 0, s |-> 0, p |-> 0],
     buffer |-> 0,
     vcc |-> Pin_new("Input"),
     gnd |-> Pin_new("Output"),
     rst |-> Pin_new("Input"),
     out0 |-> Pin_new("Output"),
     out1 |-> Pin_new("Output"),
     out2 |-> Pin_new("Output"),
     oe1 |-> Pin_new("Output"),
     oe2 |-> Pin_new("Output"),
     rw |-> Pin_new("Output"),
     nmi |-> Pin_new("Input"),
     irq |-> Pin_new("Input"),
     m2 |-> Pin_new("Output"),
     tst |-> Pin_new("Input"),
     clk |-> Pin_new("Input"),
     ad1 |-> Pin_new("Output"),
     ad2 |-> Pin_new("Output"),
     a |-> [i \in 1..16 |-> Pin_new("Output")],
     d |-> [i \in 1..8 |-> Pin_new("Floating")],
     aborted |-> ""]

\* Nes6502::set_addr, set_data_type, set_data, get_data
Nes6502_set_addr(c, addr) == [c EXCEPT !.a = Pin_write(c.a, addr)]

Nes6502_set_data_type(c, pin_type) ==
    [c EXCEPT !.rw.state = IF pin_type = "Input" THEN "High"
                           ELSE IF pin_type = "Output" THEN "Low"
                           ELSE c.rw.state,
              !.d = [i \in DOMAIN c.d |-> [c.d[i] EXCEPT !.pin_type = pin_type]]]

Nes6502_set_data(c, data) == [c EXCEPT !.d = Pin_write(c.d, data)]

Nes6502_get_data(c) == Pin_read_threshold(c.d, 33) % 256

\* todo!(), unreachable!() and an arithmetic overflow end the call of run.
Abort(c, message) == [c EXCEPT !.aborted = message]

Todo(c) == Abort(c, "not yet implemented")
Unreachable(c) == Abort(c, "internal error: entered unreachable code")

\* step += 1 and self.state = CpuState::Fetch in an arm of the Execute state
NextStep(c) == [c EXCEPT !.state.step = @ + 1]
ToFetch(c) == [c EXCEPT !.state = CpuState("Fetch", NoOpcode, 0)]

\* Nes6502::set_flags_nz
set_flags_nz(c, val) ==
    [c EXCEPT !.registers.p =
        StatusRegister_set(StatusRegister_set(c.registers.p, StatusRegister_Z, val = 0),
                           StatusRegister_N, BitAnd(val, 128) > 0)]

\* A jump that takes the displacement for an unsigned byte.
jump_relativeUnsigned(c, val) == [c EXCEPT !.registers.pc = Reg16(c.registers.pc + AsU8(val))]

\* Nes6502::jump_relative
jump_relative(c, val) == [c EXCEPT !.registers.pc = Reg16(c.registers.pc + val)]

\* Nes6502::run_st
run_st(c, val, addr) ==
    Nes6502_set_data_type(Nes6502_set_data(Nes6502_set_addr(c, addr), val), "Output")

\* A push that leaves S where it was.
push_stackKeeping(c, val) == run_st(c, val, 256 + c.registers.s)

\* Nes6502::push_stack and pop_stack_prepare
push_stack(c, val) ==
    LET stored == run_st(c, val, 256 + c.registers.s)
    IN [stored EXCEPT !.registers.s = Reg8(c.registers.s - 1)]

pop_stack_prepare(c) ==
    LET s == Reg8(c.registers.s + 1)
    IN Nes6502_set_data_type(
           Nes6502_set_addr([c EXCEPT !.registers.s = s], 256 + s), "Input")

\* Nes6502::run_adc
run_adc(c, val) ==
    LET carry == IF StatusRegister_contains(c.registers.p, StatusRegister_C) THEN 1 ELSE 0
        rhs == (val + carry) % 256
        wide == c.registers.a + rhs
        sum == wide % 256
        overflow == BitAnd(BitAnd(BitNot(BitXor(c.registers.a, val)),
                                  BitXor(c.registers.a, sum)), 128) > 0
        carried == [c EXCEPT !.registers.p =
                       StatusRegister_set(c.registers.p, StatusRegister_C, wide > 255)]
        flagged == set_flags_nz(carried, sum)
    IN ToFetch([flagged EXCEPT !.registers.p =
                    StatusRegister_set(flagged.registers.p, StatusRegister_V, overflow),
                               !.registers.a = sum])

\* Nes6502::run_sbc
run_sbc(c, val) == run_adc(c, BitNot(val))

\* Nes6502::run_and, run_eor, run_ora
run_and(c, val) ==
    LET a == BitAnd(c.registers.a, val)
    IN ToFetch(set_flags_nz([c EXCEPT !.registers.a = a], a))

run_eor(c, val) ==
    LET a == BitXor(c.registers.a, val)
    IN ToFetch(set_flags_nz([c EXCEPT !.registers.a = a], a))

run_ora(c, val) ==
    LET a == BitOr(c.registers.a, val)
    IN ToFetch(set_flags_nz([c EXCEPT !.registers.a = a], a))

\* Nes6502::run_bit
run_bit(c, val) ==
    LET z == StatusRegister_set(c.registers.p, StatusRegister_Z,
                                BitAnd(c.registers.a, val) = 0)
        n == StatusRegister_set(z, StatusRegister_N, BitAnd(val, 128) > 0)
        v == StatusRegister_set(n, StatusRegister_V, BitAnd(val, 64) > 0)
    IN ToFetch([c EXCEPT !.registers.p = v])

\* Nes6502::run_cmp
run_cmp(c, base, val) ==
    LET inverted == BitNot(val)
        carry == IF StatusRegister_contains(c.registers.p, StatusRegister_C) THEN 1 ELSE 0
        rhs == (inverted + carry) % 256
        wide == base + rhs
        sum == wide % 256
        overflow == BitAnd(BitAnd(BitNot(BitXor(base, inverted)),
                                  BitXor(base, sum)), 128) > 0
        carried == [c EXCEPT !.registers.p =
                       StatusRegister_set(c.registers.p, StatusRegister_C, wide > 255)]
        flagged == set_flags_nz(carried, sum)
    IN ToFetch([flagged EXCEPT !.registers.p =
                    StatusRegister_set(flagged.registers.p, StatusRegister_V, overflow)])

\* Nes6502::run_lda, run_ldx, run_ldy
run_lda(c, val) == ToFetch(set_flags_nz([c EXCEPT !.registers.a = val], val))
run_ldx(c, val) == ToFetch(set_flags_nz([c EXCEPT !.registers.x = val], val))
run_ldy(c, val) == ToFetch(set_flags_nz([c EXCEPT !.registers.y = val], val))

----------------------------------------------------------------------------
(* Nes6502: the Execute state and Nes6502::run.                             *)

\* AddressingMode::need_compute and Opcode::need_compute
AddressingMode_need_compute(mode) ==
    mode \in {"Indirect", "ZeroPageIndexedX", "ZeroPageIndexedY", "AbsoluteIndexedX",
              "AbsoluteIndexedY", "IndexedIndirect", "IndirectIndexed"}

Opcode_need_compute(o) == o.op \in ModeOps /\ AddressingMode_need_compute(o.mode)

\* AddressingMode::compute on the mode of the Opcode in Execute, as
\* Opcode::compute calls it; overflow_checks is whether the build panics on an
\* arithmetic overflow.
AddressingMode_compute(c, overflow_checks) ==
    LET o == c.state.opcode
        step == c.state.step
        indexed(reg) ==
            IF o.arg + reg > 65535 /\ overflow_checks
            THEN Abort(c, "attempt to add with overflow")
            ELSE [c EXCEPT !.state.opcode = Op(o.op, "Absolute", (o.arg + reg) % 65536)]
    IN CASE o.mode = "Indirect" ->
              IF step = 0
              THEN [Nes6502_set_data_type(Nes6502_set_addr(c, o.arg), "Input")
                       EXCEPT !.buffer = 0,
                              !.state.opcode = Op(o.op, "Indirect", (o.arg + 1) % 65536)]
              ELSE IF step = 1
              THEN [c EXCEPT !.buffer = Nes6502_get_data(c) * 256]
              ELSE LET buffer == (c.buffer + Nes6502_get_data(c)) % 65536
                   IN [c EXCEPT !.buffer = buffer,
                                !.state.opcode = Op(o.op, "Absolute", buffer)]
         [] o.mode = "ZeroPageIndexedX" ->
              [c EXCEPT !.state.opcode = Op(o.op, "ZeroPage", Reg8(c.registers.x + o.arg))]
         [] o.mode = "ZeroPageIndexedY" ->
              [c EXCEPT !.state.opcode = Op(o.op, "ZeroPage", Reg8(c.registers.y + o.arg))]
         [] o.mode = "AbsoluteIndexedX" -> indexed(c.registers.x)
         [] o.mode = "AbsoluteIndexedY" -> indexed(c.registers.y)
         [] o.mode \in {"IndexedIndirect", "IndirectIndexed"} -> Todo(c)
         [] OTHER -> c

\* The need_compute branch of the Execute state: compute, then step = 0 once
\* the mode needs no more computing, step += 1 while it does.
ComputeStep(c, overflow_checks) ==
    LET computed == AddressingMode_compute(c, overflow_checks)
    IN IF computed.aborted # "" THEN computed
       ELSE IF ~Opcode_need_compute(computed.state.opcode)
       THEN [computed EXCEPT !.state.step = 0]
       ELSE NextStep(computed)

\* self.run_adc(val), self.run_and(val), ...: the run_ function of the
\* instruction in Execute; CMP, CPX and CPY give run_cmp their register.
RunOperand(c, val) ==
    LET op == c.state.opcode.op
    IN CASE op = "ADC" -> run_adc(c, val)
         [] op = "AND" -> run_and(c, val)
         [] op = "BIT" -> run_bit(c, val)
         [] op \in {"CMP", "CPX", "CPY"} ->
              run_cmp(c, CASE op = "CMP" -> c.registers.a
                           [] op = "CPX" -> c.registers.x
                           [] op = "CPY" -> c.registers.y, val)
         [] op = "EOR" -> run_eor(c, val)
         [] op = "LDA" -> run_lda(c, val)
         [] op = "LDX" -> run_ldx(c, val)
         [] op = "LDY" -> run_ldy(c, val)
         [] op = "ORA" -> run_ora(c, val)
         [] op = "SBC" -> run_sbc(c, val)

\* The arms of an instruction that reads its operand: Immediate (BIT has no
\* such arm) in one step, ZeroPage and Absolute in two.
ReadArms(c) ==
    LET o == c.state.opcode
    IN IF o.mode \in {"ZeroPage", "Absolute"} /\ c.state.step = 0
       THEN NextStep(Nes6502_set_data_type(Nes6502_set_addr(c, o.arg), "Input"))
       ELSE IF o.mode \in {"ZeroPage", "Absolute"} \/ (o.mode = "Immediate" /\ o.op # "BIT")
       THEN RunOperand(c, IF o.mode = "Immediate" THEN o.arg ELSE Nes6502_get_data(c))
       ELSE Unreachable(c)

\* What ASL, LSR, ROL, ROR, DEC and INC make of a byte: <<the new byte, the new
\* carry>>, the carry as it was for DEC and INC.  The Absolute arm of ROR
\* shifts left (data <<= 1) where its other arms shift right, and its sum with
\* old_carry << 7 may pass 255.
Modified(op, mode, data, carry) ==
    LET c_in == IF carry THEN 1 ELSE 0
    IN CASE op = "ASL" -> <<(data * 2) % 256, BitAnd(data, 128) > 0>>
         [] op = "LSR" -> <<data \div 2, BitAnd(data, 1) > 0>>
         [] op = "ROL" -> <<((data * 2) % 256) + c_in, BitAnd(data, 128) > 0>>
         [] op = "ROR" /\ mode = "Absolute" ->
              <<((data * 2) % 256) + c_in * 128, BitAnd(data, 1) > 0>>
         [] op = "ROR" /\ mode # "Absolute" -> <<data \div 2 + c_in * 128, BitAnd(data, 1) > 0>>
         [] op = "DEC" -> <<Reg8(data - 1), carry>>
         [] op = "INC" -> <<(data + 1) % 256, carry>>

\* The arms of an instruction that modifies a byte: the accumulator in one step
\* (DEC and INC have no such arm), a byte of memory in three.  The sum of the
\* byte is made in u8: past 255 it panics in a build with overflow checks and
\* wraps in one without.
ModifyArms(c, overflow_checks) ==
    LET o == c.state.opcode
        step == c.state.step
        carry == StatusRegister_contains(c.registers.p, StatusRegister_C)
        data == IF o.mode = "Implicit" THEN c.registers.a ELSE Nes6502_get_data(c)
        made == Modified(o.op, o.mode, data, carry)
        m == <<made[1] % 256, made[2]>>
        flagged == set_flags_nz([c EXCEPT !.registers.p =
                       StatusRegister_set(c.registers.p, StatusRegister_C, m[2])], m[1])
    IN IF o.mode = "Implicit" /\ o.op \notin {"DEC", "INC"}
       THEN ToFetch([flagged EXCEPT !.registers.a = m[1]])
       ELSE IF o.mode \in {"ZeroPage", "Absolute"}
       THEN IF step = 0
            THEN NextStep(Nes6502_set_data_type(Nes6502_set_addr(c, o.arg), "Input"))
            ELSE IF step = 1
            THEN IF made[1] > 255 /\ overflow_checks
                 THEN Abort([c EXCEPT !.registers.p =
                                StatusRegister_set(c.registers.p, StatusRegister_C, m[2])],
                            "attempt to add with overflow")
                 ELSE NextStep(Nes6502_set_data_type(Nes6502_set_data(flagged, m[1]), "Output"))
            ELSE ToFetch(c)
       ELSE Unreachable(c)

\* The arms of STA, STX and STY.
StoreArms(c) ==
    LET o == c.state.opcode
        step == c.state.step
        val == CASE o.op = "STA" -> c.registers.a
                 [] o.op = "STX" -> c.registers.x
                 [] o.op = "STY" -> c.registers.y
        stores == (o.mode = "ZeroPage" /\ step = 0) \/ (o.mode = "Absolute" /\ step = 1)
    IN IF o.mode \notin {"ZeroPage", "Absolute"} THEN Unreachable(c)
       ELSE IF stores THEN NextStep(run_st(c, val, o.arg))
       ELSE IF o.mode = "Absolute" /\ step = 0 THEN NextStep(c)
       ELSE ToFetch(c)

\* The arms of the branches: BPL, BVC, BCC and BNE jump while their flag is
\* clear, BMI, BVS, BCS and BEQ while it is set.
BranchArm(c) ==
    LET op == c.state.opcode.op
        flag == CASE op \in {"BPL", "BMI"} -> StatusRegister_N
                  [] op \in {"BVC", "BVS"} -> StatusRegister_V
                  [] op \in {"BCC", "BCS"} -> StatusRegister_C
                  [] op \in {"BNE", "BEQ"} -> StatusRegister_Z
        taken == StatusRegister_contains(c.registers.p, flag) = (op \in {"BMI", "BVS", "BCS", "BEQ"})
    IN ToFetch(IF taken THEN jump_relative(c, c.state.opcode.arg) ELSE c)

\* The arms of TAX, TXA, DEX, INX, TAY, TYA, DEY and INY: the register, its new
\* value, the N and Z flags.
Loaded(c) ==
    LET op == c.state.opcode.op
        r == c.registers
        reg == CASE op \in {"TAX", "DEX", "INX"} -> "x"
                 [] op \in {"TAY", "DEY", "INY"} -> "y"
                 [] op \in {"TXA", "TYA"} -> "a"
        val == CASE op \in {"TAX", "TAY"} -> r.a
                 [] op = "TXA" -> r.x
                 [] op = "TYA" -> r.y
                 [] op = "DEX" -> Reg8(r.x - 1)
                 [] op = "INX" -> Reg8(r.x + 1)
                 [] op = "DEY" -> Reg8(r.y - 1)
                 [] op = "INY" -> Reg8(r.y + 1)
    IN ToFetch(set_flags_nz([c EXCEPT !.registers[reg] = val], val))

\* The arms of CLC, SEC, CLI, SEI and CLV.
Flagged(c) ==
    LET op == c.state.opcode.op
        flag == CASE op \in {"CLC", "SEC"} -> StatusRegister_C
                  [] op \in {"CLI", "SEI"} -> StatusRegister_I
                  [] op = "CLV" -> StatusRegister_V
    IN ToFetch([c EXCEPT !.registers.p =
                   StatusRegister_set(c.registers.p, flag, op \in {"SEC", "SEI"})])

\* The match on the Opcode of the Execute state, for an Opcode that needs no
\* computing.
ExecuteArms(c, overflow_checks) ==
    LET o == c.state.opcode
        step == c.state.step
        r == c.registers
        alt_pc == Reg16(r.pc - 1)
        buffer == c.buffer + Nes6502_get_data(c) * 256
    IN CASE o.op \in {"ADC", "AND", "BIT", "CMP", "CPX", "CPY", "EOR", "LDA", "LDX",
                       "LDY", "ORA", "SBC"} -> ReadArms(c)
         [] o.op \in {"ASL", "DEC", "INC", "LSR", "ROL", "ROR"} -> ModifyArms(c, overflow_checks)
         [] o.op \in BranchOps -> BranchArm(c)
         [] o.op \in {"BRK", "RTI"} -> Todo(c)
         [] o.op \in {"CLC", "SEC", "CLI", "SEI", "CLV"} -> Flagged(c)
         [] o.op \in {"JMP", "JSR"} /\ o.mode # "Absolute" -> Unreachable(c)
         [] o.op = "JMP" /\ o.mode = "Absolute" -> ToFetch([c EXCEPT !.registers.pc = o.arg])
         [] o.op = "JSR" /\ o.mode = "Absolute" ->
              IF step \in {0, 1}
              THEN NextStep(push_stack(c, IF step = 0 THEN alt_pc \div 256 ELSE alt_pc % 256))
              ELSE ToFetch([c EXCEPT !.registers.pc = o.arg])
         [] o.op = "NOP" -> ToFetch(c)
         [] o.op \in {"TAX", "TXA", "DEX", "INX", "TAY", "TYA", "DEY", "INY"} -> Loaded(c)
         [] o.op = "RTS" ->
              IF step \in {0, 1}
              THEN NextStep(pop_stack_prepare(
                       [c EXCEPT !.buffer = IF step = 0 THEN 0 ELSE Nes6502_get_data(c)]))
              ELSE IF buffer > 65535 THEN Abort(c, "attempt to add with overflow")
              ELSE ToFetch([c EXCEPT !.buffer = buffer, !.registers.pc = (buffer + 1) % 65536])
         [] o.op = "TXS" -> ToFetch([c EXCEPT !.registers.s = r.x])
         [] o.op = "TSX" -> ToFetch([c EXCEPT !.registers.x = r.s])
         [] o.op \in {"PHA", "PHP"} ->
              IF step = 0 THEN NextStep(push_stack(c, IF o.op = "PHA" THEN r.a ELSE r.p))
              ELSE ToFetch(c)
         [] o.op \in {"PLA", "PLP"} ->
              IF step = 0 THEN NextStep(pop_stack_prepare(c))
              ELSE [c EXCEPT !.registers[IF o.op = "PLA" THEN "a" ELSE "p"] = Nes6502_get_data(c)]
         [] o.op \in {"STA", "STX", "STY"} -> StoreArms(c)

\* The Execute arm of the falling edge: the computing or the match, then the
\* address of the next opcode once the state is Fetch.
Execute(c, overflow_checks) ==
    LET done == IF Opcode_need_compute(c.state.opcode)
                THEN ComputeStep(c, overflow_checks)
                ELSE ExecuteArms(c, overflow_checks)
    IN IF done.aborted # "" THEN done
       ELSE IF done.state.name = "Fetch"
       THEN [Nes6502_set_addr(done, done.registers.pc)
                EXCEPT !.registers.pc = Reg16(done.registers.pc + 1)]
       ELSE done

\* A request that leaves PC where it was.
RequestByteKeeping(c) == Nes6502_set_addr(c, c.registers.pc)

\* self.set_addr(*self.registers.pc); self.registers.pc.inc()
RequestByte(c) ==
    [Nes6502_set_addr(c, c.registers.pc) EXCEPT !.registers.pc = Reg16(c.registers.pc + 1)]

\* A rising edge that requests the next byte as a falling edge does.
RisingEdgeRequesting(c) == RequestByte(c)

\* The match of Nes6502::run on a rising edge of CLK.
RisingEdge(c) ==
    IF c.state.name = "Execute" THEN c
    ELSE IF c.state.name = "Halted" THEN Nes6502_set_data_type(c, "Floating")
    ELSE Nes6502_set_data_type(c, "Input")

\* The match of Nes6502::run on a falling edge of CLK.
FallingEdge(c, overflow_checks) ==
    LET name == c.state.name
        data == Nes6502_get_data(c)
    IN CASE name = "Reset" ->
              [RequestByte(c) EXCEPT !.state = CpuState("ResetCollectHighByte", NoOpcode, 0)]
         [] name = "ResetCollectHighByte" ->
              [RequestByte([c EXCEPT !.buffer = data * 256])
                  EXCEPT !.state = CpuState("ResetCollectLowByte", NoOpcode, 0)]
         [] name = "ResetCollectLowByte" ->
              LET buffer == (c.buffer + data) % 65536
              IN [RequestByte([c EXCEPT !.buffer = buffer, !.registers.pc = buffer])
                     EXCEPT !.state = CpuState("Fetch", NoOpcode, 0)]
         [] name \in {"NmiCollectHighByte", "NmiCollectLowByte",
                      "IrqCollectHighByte", "IrqCollectLowByte"} -> Todo(c)
         [] name = "Fetch" ->
              LET opcode == Opcode_from(data)
              IN IF Opcode_require_arg1(opcode)
                 THEN [RequestByte(c) EXCEPT !.state = CpuState("Arg1", opcode, 0)]
                 ELSE [c EXCEPT !.state = CpuState("Execute", opcode, 0)]
         [] name = "Arg1" ->
              LET opcode == Opcode_set_arg1(c.state.opcode, data)
              IN IF Opcode_require_arg2(opcode)
                 THEN [RequestByte(c) EXCEPT !.state = CpuState("Arg2", opcode, 0)]
                 ELSE [c EXCEPT !.state = CpuState("Execute", opcode, 0)]
         [] name = "Arg2" ->
              [c EXCEPT !.state = CpuState("Execute", Opcode_set_arg2(c.state.opcode, data), 0)]
         [] name = "Execute" -> Execute(c, overflow_checks)
         [] name = "Halted" -> c

\* A power-up that resets the state machine and keeps the registers.
PowerUpKeeping(c) == [c EXCEPT !.state = CpuState("Reset", NoOpcode, 0), !.powered = TRUE]

\* The `if !self.powered` block of Nes6502::run.
PowerUp(c) ==
    [c EXCEPT !.state = CpuState("Reset", NoOpcode, 0),
              !.registers = [a |-> 0, x |-> 0, y |-> 0, pc |-> 65532, s |-> 253, p |-> 52],
              !.powered = TRUE]

\* Nes6502::run
Nes6502_run(c, overflow_checks) ==
    IF State_as_logic(c.vcc.state, 33) = "High"
    THEN LET up == IF c.powered THEN c ELSE PowerUp(c)
             clk == State_as_bool(State_as_logic(up.clk.state, 33))
         IN IF up.clock # clk
            THEN LET edge == [up EXCEPT !.clock = clk, !.m2.state = StateFromBool(clk)]
                 IN IF clk THEN RisingEdge(edge) ELSE FallingEdge(edge, overflow_checks)
            ELSE up
    ELSE IF c.powered
         THEN [c EXCEPT !.state = CpuState("Halted", NoOpcode, 0), !.powered = FALSE]
         ELSE c

----------------------------------------------------------------------------
(* A Nes6502 driven pin by pin.                                             *)

\* Calls of run made on one CPU.
MaxTicks == 12

\* The bytes the bus presents on D0..D7: BRK, LDA (zp,X), LDA abs,X, DEX and a
\* byte without an opcode.
CpuBytes == {0, 161, 189, 202, 255}

CpuInit ==
    /\ cpuChip = Nes6502_build
    /\ cpuTicks = 0

\* cpu.vcc.state = ..., cpu.clk.state = ...
CpuSetVcc(st) ==
    /\ cpuChip.aborted = ""
    /\ cpuChip.vcc.state # st
    /\ cpuChip' = [cpuChip EXCEPT !.vcc.state = st]
    /\ UNCHANGED <<cpuTicks, notCpuVars>>

CpuSetClk(st) ==
    /\ cpuChip.aborted = ""
    /\ cpuChip.clk.state # st
    /\ cpuChip' = [cpuChip EXCEPT !.clk.state = st]
    /\ UNCHANGED <<cpuTicks, notCpuVars>>

\* Pin::write(&mut [d0 .. d7], b) while the CPU does not drive the data bus
CpuWriteData(b) ==
    /\ cpuChip.aborted = ""
    /\ \A i \in DOMAIN cpuChip.d : cpuChip.d[i].pin_type # "Output"
    /\ Presented(cpuChip.d) # b
    /\ cpuChip' = [cpuChip EXCEPT !.d = Pin_write(cpuChip.d, b)]
    /\ UNCHANGED <<cpuTicks, notCpuVars>>

\* cpu.run(..)
CpuRun ==
    /\ cpuChip.aborted = ""
    /\ cpuTicks < MaxTicks
    /\ \E overflow_checks \in BOOLEAN : cpuChip' = Nes6502_run(cpuChip, overflow_checks)
    /\ cpuTicks' = cpuTicks + 1
    /\ UNCHANGED notCpuVars

NextCpu ==
    \/ \E st \in DrivenLevels : CpuSetVcc(st)
    \/ \E st \in DrivenLevels : CpuSetClk(st)
    \/ \E b \in CpuBytes : CpuWriteData(b)
    \/ CpuRun

----------------------------------------------------------------------------
(* Ram256B of chip/memory.rs, the chip a Socket holds.                      *)

\* Pin n of the chip is pin[n] here and self.pin[n - 1] in the source.
memory_CS == 1
memory_WE == 2
memory_OE == 3
memory_GND == 11
memory_VCC == 22
memory_IO == 13..20

\* Ram256B::new
memory_Ram256B_new ==
    [pin |-> [n \in 1..22 |-> Pin_new(IF n \in 13..20 THEN "Output" ELSE "Input")],
     ram |-> [i \in Bytes |-> 0],
     powered |-> FALSE]

\* Ram256B::get_address: pins 4..10 are A0..A6, pin 12 is A7.
memory_get_address(chip) ==
    LET bit(n) == IF chip.pin[n].state = "High" THEN 1 ELSE 0
        RECURSIVE Low7(_)
        Low7(i) == IF i >= 10 THEN 0 ELSE bit(i + 1) * Pow2(i - 3) + Low7(i + 1)
    IN (Low7(3) + bit(12) * Pow2(7)) % 256

\* Ram256B::get_data: pins 13..20 are IO0..IO7.
memory_get_data(chip) ==
    LET bit(n) == IF chip.pin[n].state = "High" THEN 1 ELSE 0
        RECURSIVE Sum(_)
        Sum(i) == IF i >= 20 THEN 0 ELSE bit(i + 1) * Pow2(i - 12) + Sum(i + 1)
    IN Sum(12) % 256

\* State::from_u8
State_from_u8(data, position) ==
    IF (data \div Pow2(position)) % 2 = 1 THEN "High" ELSE "Low"

\* The Write Enable block of Ram256B::run.
memory_write_block(chip) ==
    IF chip.pin[memory_WE].state = "Low"
    THEN LET typed == [chip EXCEPT !.pin = [n \in 1..22 |->
                            IF n - 1 \in 12..19 THEN [@[n] EXCEPT !.pin_type = "Input"] ELSE @[n]]]
         IN [typed EXCEPT !.ram[memory_get_address(typed)] = memory_get_data(typed)]
    ELSE chip

\* The Output Enable block of Ram256B::run, which follows the Write Enable
\* block without an else; its loop 12..21 types one pin more than the eight.
memory_read_block(chip) ==
    IF chip.pin[memory_OE].state = "Low"
    THEN LET addr == memory_get_address(chip)
         IN [chip EXCEPT !.pin = [n \in 1..22 |->
                CASE n - 1 \in 12..19 ->
                        [pin_type |-> "Output",
                         state |-> State_from_u8(chip.ram[addr], n - 13)]
                  [] n - 1 = 20 -> [@[n] EXCEPT !.pin_type = "Output"]
                  [] OTHER -> @[n]]]
    ELSE chip

\* Ram256B::run of chip/memory.rs
memory_Ram256B_run(chip, random) ==
    IF chip.pin[memory_GND].state = "Low" /\ chip.pin[memory_VCC].state = "High"
    THEN LET up == [chip EXCEPT !.ram = IF chip.powered THEN chip.ram ELSE random,
                                !.powered = TRUE]
         IN IF up.pin[memory_CS].state = "Low"
            THEN memory_read_block(memory_write_block(up))
            ELSE [up EXCEPT !.pin = [n \in 1..22 |->
                    IF n - 1 \in 12..19 THEN [@[n] EXCEPT !.pin_type = "Floating"] ELSE @[n]]]
    ELSE IF chip.powered
         THEN [chip EXCEPT !.pin = [n \in 1..22 |-> [@[n] EXCEPT !.state = "Undefined"]],
                           !.powered = FALSE]
         ELSE chip

\* The pins the caller drives: CS, WE, OE, A0, GND, IO0 and VCC.
MemDriven == {memory_CS, memory_WE, memory_OE, 4, memory_GND, 13, memory_VCC}

MemInit == memChip = memory_Ram256B_new

\* Chip::set_pin_state
MemSetPin(n, st) ==
    /\ memChip.pin[n].state # st
    /\ memChip' = [memChip EXCEPT !.pin[n].state = st]
    /\ UNCHANGED notMemVars

\* chip.run(elapsed)
MemRun ==
    /\ \E random \in RandomFills : memChip' = memory_Ram256B_run(memChip, random)
    /\ UNCHANGED notMemVars

NextMem ==
    \/ \E n \in MemDriven, st \in DrivenLevels : MemSetPin(n, st)
    \/ MemRun

----------------------------------------------------------------------------
(* Clock100Hz of chip/clocks.rs.  Durations are whole milliseconds.         *)

Clock100HzCLK == 1
Clock100HzGND == 2
Clock100HzVCC == 4

\* const LIMIT: Duration = Duration::from_millis(10)
ClockLimit == 10

\* The frequency the chip is named after.
ClockHz == 100

\* Clock100Hz::new
Clock100Hz_new ==
    [pin |-> [n \in 1..4 |-> Pin_new(IF n = 1 THEN "Output" ELSE "Input")],
     timer |-> 0,
     active |-> FALSE]

\* if self.active { ... }: the pulse of the run before ends.
Clock100Hz_end_pulse(chip) ==
    IF chip.active
    THEN [chip EXCEPT !.active = FALSE, !.pin[Clock100HzCLK].state = "Low"]
    ELSE chip

\* while self.timer > LIMIT { self.timer -= LIMIT }
RECURSIVE Clock100Hz_wind(_)
Clock100Hz_wind(timer) ==
    IF timer > ClockLimit THEN Clock100Hz_wind(timer - ClockLimit) ELSE timer

\* if self.timer > LIMIT
Clock100Hz_exceeds(timer) == timer > ClockLimit

\* The "check alimented" block of Clock100Hz::run.
Clock100Hz_count(chip, time_elapsed) ==
    IF chip.pin[Clock100HzGND].state = "Low" /\ chip.pin[Clock100HzVCC].state = "High"
    THEN LET timer == chip.timer + time_elapsed
         IN IF Clock100Hz_exceeds(timer)
            THEN [chip EXCEPT !.timer = Clock100Hz_wind(timer),
                              !.active = TRUE,
                              !.pin[Clock100HzCLK].state = "High"]
            ELSE [chip EXCEPT !.timer = timer]
    ELSE [chip EXCEPT !.timer = 0]

\* Clock100Hz::run
Clock100Hz_run(chip, time_elapsed) ==
    Clock100Hz_count(Clock100Hz_end_pulse(chip), time_elapsed)

\* How many times the state of CLK changes in that run: once at most in each
\* of its two blocks.
Clock100Hz_changes(chip, time_elapsed) ==
    LET before == chip.pin[Clock100HzCLK].state
        between == Clock100Hz_end_pulse(chip).pin[Clock100HzCLK].state
        after == Clock100Hz_run(chip, time_elapsed).pin[Clock100HzCLK].state
    IN (IF before # between THEN 1 ELSE 0) + (IF between # after THEN 1 ELSE 0)

\* The steps the caller runs the clock with, and the longest time it is run.
ClockSteps == {1, 4, 11, 25}
MaxClockTime == 45

ClockPowered(chip) ==
    chip.pin[Clock100HzGND].state = "Low" /\ chip.pin[Clock100HzVCC].state = "High"

ClockInit ==
    /\ clockChip = Clock100Hz_new
    /\ clockTime = 0
    /\ clockEdges = 0

\* Chip::set_pin_state on VCC or GND; the count of time and transitions
\* starts again with the new supply.
ClockSetPin(n, st) ==
    /\ clockChip.pin[n].state # st
    /\ clockChip' = [clockChip EXCEPT !.pin[n].state = st]
    /\ clockTime' = 0
    /\ clockEdges' = 0
    /\ UNCHANGED notClockVars

\* chip.run(step)
ClockRun(step) ==
    /\ clockTime + step <= MaxClockTime
    /\ clockChip' = Clock100Hz_run(clockChip, step)
    /\ IF ClockPowered(clockChip)
       THEN /\ clockTime' = clockTime + step
            /\ clockEdges' = clockEdges + Clock100Hz_changes(clockChip, step)
       ELSE UNCHANGED <<clockTime, clockEdges>>
    /\ UNCHANGED notClockVars

NextClock ==
    \/ \E n \in {Clock100HzGND, Clock100HzVCC}, st \in DrivenLevels : ClockSetPin(n, st)
    \/ \E step \in ClockSteps : ClockRun(step)

----------------------------------------------------------------------------
(* Board::run_during.  Durations are whole milliseconds.                    *)

\* The durations and the steps the caller gives to run_during.
RunDurations == {0, 1, 4, 5}
RunSteps == {0, 1, 2, 3}

\* The traces of the board that run_during runs: the generator feeds the
\* first button, which feeds the second.
RunTraces == <<<<<<1, GeneratorVCC>>, <<2, ButtonIN>>>>,
               <<<<2, ButtonOUT>>, <<3, ButtonIN>>>>>>

RunInit ==
    /\ runDuration = 0
    /\ runStep = 0
    /\ runElapsed = 0
    /\ runAt = "idle"

\* Board::new_trace and Trace::connect, for the traces of that board.
RunWire ==
    /\ runAt = "idle"
    /\ traces = <<>>
    /\ traces' = RunTraces
    /\ UNCHANGED <<pins, sockets, running, pre, mid, seen, ran, runVars, notBoardRunVars>>

\* Button::press and Button::release, between two calls of run_during.
RunPress(c) == runAt = "idle" /\ Press(c)

RunRelease(c) == runAt = "idle" /\ Release(c)

\* The call: let mut elapsed = Duration::new(0, 0)
RunDuringCall(duration, step) ==
    /\ runAt = "idle"
    /\ runAt' = "test"
    /\ runDuration' = duration
    /\ runStep' = step
    /\ runElapsed' = 0
    /\ UNCHANGED <<boardVars, notBoardRunVars>>

\* while elapsed < duration: the test passes and the body is entered.
RunDuringTest ==
    /\ runAt = "test"
    /\ runElapsed < runDuration
    /\ runAt' = "body"
    /\ UNCHANGED <<boardVars, runDuration, runStep, runElapsed, notBoardRunVars>>

\* The body of the loop: self.run(step); elapsed += step
RunDuringLoop ==
    /\ runAt = "body"
    /\ running' = TRUE
    /\ pre' = pins
    /\ mid' = CommunicateAll(ResetInputs(pins), traces, 1)
    /\ seen' = SeenBySockets(mid', sockets, 1)
    /\ pins' = Board_run(pins, traces, sockets)
    /\ ran' = TRUE
    /\ runElapsed' = runElapsed + runStep
    /\ runAt' = "test"
    /\ UNCHANGED <<sockets, traces, runDuration, runStep, notBoardRunVars>>

\* The test fails and run_during returns.
RunDuringReturn ==
    /\ runAt = "test"
    /\ ~(runElapsed < runDuration)
    /\ runAt' = "idle"
    /\ UNCHANGED <<boardVars, runDuration, runStep, runElapsed, notBoardRunVars>>

NextRun ==
    \/ RunWire
    \/ \E c \in Pressable : RunPress(c)
    \/ \E c \in Pressable : RunRelease(c)
    \/ \E duration \in RunDurations, step \in RunSteps : RunDuringCall(duration, step)
    \/ RunDuringTest
    \/ RunDuringLoop
    \/ RunDuringReturn

----------------------------------------------------------------------------
(* NandGate, and the board of examples/sr-latch.rs.                         *)

NandGateVCC == 14
NandGateGND == 7
NandGateA == 1
NandGateB == 2
NandGateAB == 3
NandGateC == 4
NandGateD == 5
NandGateCD == 6

\* The inputs and the output of the four gates of the chip.
NandGateGates == {<<1, 2, 3>>, <<4, 5, 6>>, <<13, 12, 11>>, <<10, 9, 8>>}

\* State::from(!(a.as_logic(3.3).into() && b.as_logic(3.3).into()))
NandGate_gate(l, r) ==
    StateFromBool(~(State_as_bool(State_as_logic(l, 33)) /\ State_as_bool(State_as_logic(r, 33))))

\* NandGate::run, for the chip in socket c
NandGate_run(ps, c) ==
    IF State_as_logic(ps[<<c, NandGateVCC>>].state, 33) = "High"
    THEN [p \in DOMAIN ps |->
            IF p[1] # c THEN ps[p]
            ELSE IF p[2] = NandGateGND THEN [ps[p] EXCEPT !.state = "Low"]
            ELSE IF \E g \in NandGateGates : g[3] = p[2]
                 THEN LET g == CHOOSE g \in NandGateGates : g[3] = p[2]
                      IN [ps[p] EXCEPT !.state =
                            NandGate_gate(ps[<<c, g[1]>>].state, ps[<<c, g[2]>>].state)]
            ELSE ps[p]]
    ELSE ps

\* The chips in the order main registers them.
LatchNand == 1
LatchGen == 2
LatchSet == 3
LatchReset == 4

LatchButtons == {LatchSet, LatchReset}

LatchPinIds ==
    {<<LatchNand, n>> : n \in 1..14}
        \cup {<<c, n>> : c \in {LatchGen, LatchSet, LatchReset}, n \in 1..2}

\* NandGate::build, Generator::build and Button::build
LatchInitialPins ==
    [p \in LatchPinIds |->
        IF p[1] = LatchNand
        THEN Pin_new(IF p[2] \in {NandGateGND, 3, 6, 11, 8} THEN "Output" ELSE "Input")
        ELSE IF p[1] = LatchGen
        THEN [pin_type |-> "Output",
              state |-> IF p[2] = GeneratorVCC THEN "High" ELSE "Low"]
        ELSE Pin_new(IF p[2] = ButtonIN THEN "Input" ELSE "Output")]

\* The traces main registers and connects, in that order.
LatchTraces ==
    <<<<<<LatchGen, GeneratorVCC>>, <<LatchNand, NandGateVCC>>,
        <<LatchSet, ButtonIN>>, <<LatchReset, ButtonIN>>>>,
      <<<<LatchSet, ButtonOUT>>, <<LatchNand, NandGateC>>>>,
      <<<<LatchReset, ButtonOUT>>, <<LatchNand, NandGateA>>>>,
      <<<<LatchNand, NandGateAB>>, <<LatchNand, NandGateD>>>>,
      <<<<LatchNand, NandGateCD>>, <<LatchNand, NandGateB>>>>>>

\* board.run on that board: the traces, then the chips in their order.
Latch_run(ps, down) ==
    LET resolved == CommunicateAll(ps, LatchTraces, 1)
        nand == NandGate_run(resolved, LatchNand)
        gen == Generator_run(nand, LatchGen)
        set == Button_run(gen, LatchSet, down[LatchSet])
    IN Button_run(set, LatchReset, down[LatchReset])

\* The runs counted after a release.
MaxSince == 5

LatchInit ==
    /\ latchPins = LatchInitialPins
    /\ latchDown = [c \in LatchButtons |-> FALSE]
    /\ latchLast = "none"
    /\ latchSince = 0

\* btn.press()
LatchPress(c) ==
    /\ ~latchDown[c]
    /\ latchDown' = [latchDown EXCEPT ![c] = TRUE]
    /\ UNCHANGED <<latchPins, latchLast, latchSince, notLatchVars>>

\* btn.release()
LatchRelease(c) ==
    /\ latchDown[c]
    /\ latchDown' = [latchDown EXCEPT ![c] = FALSE]
    /\ UNCHANGED <<latchPins, latchLast, latchSince, notLatchVars>>

\* board.run(Duration::from_millis(1))
LatchRun ==
    /\ latchPins' = Latch_run(latchPins, latchDown)
    /\ IF \E c \in LatchButtons : latchDown[c]
       THEN /\ latchLast' = IF \A c \in LatchButtons : latchDown[c] THEN "both"
                            ELSE IF latchDown[LatchSet] THEN "set" ELSE "reset"
            /\ latchSince' = 0
       ELSE /\ latchLast' = latchLast
            /\ latchSince' = IF latchSince < MaxSince THEN latchSince + 1 ELSE latchSince
    /\ UNCHANGED <<latchDown, notLatchVars>>

NextLatch ==
    \/ \E c \in LatchButtons : LatchPress(c)
    \/ \E c \in LatchButtons : LatchRelease(c)
    \/ LatchRun

----------------------------------------------------------------------------
(* The chips of examples/test-6502.rs that src/ holds no source of: the    *)
(* Generator with one OUT pin, the Clock with a frequency, the NotGate.    *)
(* Durations are whole milliseconds.                                        *)

\* Generator::build: one Output pin, High by default.
Generator_build == [out |-> [pin_type |-> "Output", state |-> "High"]]

\* Generator::run rewrites its pin.
Generator_tick(chip) == [chip EXCEPT !.out.state = "High"]

\* Clock::build().with_frequency(hz): the frequency becomes a half period.
Clock_build(hz) ==
    [half_period |-> 1000 \div (2 * hz),
     timer |-> 0,
     phase |-> FALSE,
     vcc |-> Pin_new("Input"),
     clk |-> Pin_new("Output")]

\* The phase flips while the accumulator exceeds the half period.
RECURSIVE Clock_flip(_)
Clock_flip(chip) ==
    IF chip.timer > chip.half_period
    THEN Clock_flip([chip EXCEPT !.timer = @ - chip.half_period, !.phase = ~@])
    ELSE chip

\* Clock::run
Clock_run(chip, dt) ==
    IF State_as_logic(chip.vcc.state, 33) = "High"
    THEN LET flipped == Clock_flip([chip EXCEPT !.timer = @ + dt])
         IN [flipped EXCEPT !.clk.state = StateFromBool(flipped.phase)]
    ELSE [chip EXCEPT !.timer = 0, !.phase = FALSE]

\* NotGate::build: six inverters, in[i] feeding out[i]; A and B are the first two.
NotGate_build ==
    [vcc |-> Pin_new("Input"),
     gnd |-> Pin_new("Output"),
     in |-> [i \in 1..6 |-> Pin_new("Input")],
     out |-> [i \in 1..6 |-> Pin_new("Output")]]

\* NotGate::run
NotGate_run(chip) ==
    IF State_as_logic(chip.vcc.state, 33) = "High"
    THEN [chip EXCEPT !.gnd.state = "Low",
                      !.out = [i \in 1..6 |->
                                [@[i] EXCEPT !.state = StateFromBool(
                                    ~State_as_bool(State_as_logic(chip.in[i].state, 33)))]]]
    ELSE chip

----------------------------------------------------------------------------
(* The board of examples/test-6502.rs.                                      *)

\* The program of main: the arithmetic first, then the loop that fills RAM.
SysArithmetic ==
    <<Op("CLC", "None", 0), Op("LDA", "Immediate", 90), Op("ADC", "Immediate", 255),
      Op("SEC", "None", 0), Op("SBC", "Immediate", 255)>>

SysLoop ==
    <<Op("LDX", "Immediate", 10), Op("LDA", "ZeroPage", 255),
      Op("STA", "ZeroPageIndexedX", 0), Op("DEX", "None", 0),
      Op("BPL", "Relative", -5), Op("BMI", "Relative", -2)>>

SysPrograms == [S4 |-> SysArithmetic, S5 |-> SysArithmetic \o SysLoop]

\* The bytes main stores at prg[0xFC] and prg[0xFD], and the bytes the
\* scenarios name for $FFFC and $FFFD.
SysVectors == {<<128, 0>>, <<0, 128>>}

\* prg.resize(256, 0); prg[0xFC] = ...; prg[0xFD] = ...
SysImage(program, vector) ==
    LET prg == Assembler_assemble(SysPrograms[program]).bytes
    IN [i \in 1..256 |-> IF i - 1 = 252 THEN vector[1]
                         ELSE IF i - 1 = 253 THEN vector[2]
                         ELSE IF i <= Len(prg) THEN prg[i] ELSE 0]

\* The register_chip calls of main.
Sys_main(program, vector) ==
    [rom |-> Rom256B_set_data(Rom256B_build, SysImage(program, vector)),
     ram |-> Ram256B_build,
     not |-> NotGate_build,
     vcc |-> Generator_build,
     clock |-> Clock_build(50),
     cpu |-> Nes6502_build]

\* A pin of the board: the chip, the field of the chip, and the place in
\* the field when the field is an array of pins (0 when it is one pin).
SysBus(from, ffield, to, tfield, n) ==
    [i \in 1..n |-> <<<<from, ffield, i>>, <<to, tfield, i>>>>]

\* The register_trace and connect calls of main, in their order.
SysTraces ==
    <<<<<<"vcc", "out", 0>>, <<"clock", "vcc", 0>>, <<"cpu", "vcc", 0>>,
        <<"not", "vcc", 0>>, <<"rom", "vcc", 0>>, <<"ram", "vcc", 0>>>>>>
    \o SysBus("cpu", "a", "rom", "a", 8)
    \o SysBus("cpu", "d", "rom", "io", 8)
    \o <<<<<<"cpu", "a", 16>>, <<"not", "in", 1>>>>,
         <<<<"not", "out", 1>>, <<"rom", "cs", 0>>>>>>
    \o SysBus("cpu", "a", "ram", "a", 8)
    \o SysBus("cpu", "d", "ram", "io", 8)
    \o <<<<<<"cpu", "a", 16>>, <<"ram", "cs", 0>>>>,
         <<<<"cpu", "rw", 0>>, <<"ram", "we", 0>>, <<"not", "in", 2>>>>,
         <<<<"not", "out", 2>>, <<"rom", "oe", 0>>, <<"ram", "oe", 0>>>>,
         <<<<"clock", "clk", 0>>, <<"cpu", "clk", 0>>>>>>

SysPinIds == UNION {Range(SysTraces[t]) : t \in DOMAIN SysTraces}

\* The pins of the chips that the traces touch, and the chips with those pins.
SysPins(chips) ==
    [p \in SysPinIds |-> IF p[3] = 0 THEN chips[p[1]][p[2]] ELSE chips[p[1]][p[2]][p[3]]]

SysPut(chips, ps) ==
    [c \in DOMAIN chips |-> [f \in DOMAIN chips[c] |->
        IF <<c, f, 0>> \in SysPinIds THEN ps[<<c, f, 0>>]
        ELSE IF \E p \in SysPinIds : p[1] = c /\ p[2] = f
        THEN [i \in DOMAIN chips[c][f] |->
                IF <<c, f, i>> \in SysPinIds THEN ps[<<c, f, i>>] ELSE chips[c][f][i]]
        ELSE chips[c][f]]]

\* Board::run on that board: every trace communicates, then every chip runs,
\* in the order main registered them.
Sys_run(chips, dt, random, overflow_checks) ==
    LET wired == SysPut(chips, CommunicateAll(SysPins(chips), SysTraces, 1))
    IN [rom |-> Rom256B_run(wired.rom),
        ram |-> Ram256B_run(wired.ram, random),
        not |-> NotGate_run(wired.not),
        vcc |-> Generator_tick(wired.vcc),
        clock |-> Clock_run(wired.clock, dt),
        cpu |-> Nes6502_run(wired.cpu, overflow_checks)]

\* The step of each run, the instructions counted, and what random::<u8>()
\* can leave in the RAM at power-up: zeros, a JMP $0000 at $0000, or a PHA at
\* $0000 with a JMP $0000 after it.
SysStep == 4
MaxInstr == 50
SysFills == {[i \in Bytes |-> 0],
             [i \in Bytes |-> IF i = 0 THEN 76 ELSE IF i = 255 THEN 60 ELSE 0],
             [i \in Bytes |-> IF i = 0 THEN 72 ELSE IF i = 1 THEN 76 ELSE 0]}

\* The CPU has finished an instruction when it comes back to Fetch.
SysFinished(before, after) ==
    before.state.name \in {"Arg1", "Arg2", "Execute"} /\ after.state.name = "Fetch"

\* No board yet.
SysNone == [program |-> "none", vector |-> <<0, 0>>]

SysInit ==
    /\ sysChips = <<>>
    /\ sysBuilt = SysNone
    /\ sysInstr = 0

\* main, up to its first board.run
SysBuild(program, vector) ==
    /\ sysBuilt = SysNone
    /\ sysBuilt' = [program |-> program, vector |-> vector]
    /\ sysChips' = Sys_main(program, vector)
    /\ UNCHANGED <<sysInstr, notSysVars>>

\* board.run(step), until the CPU panics
SysRun ==
    /\ sysBuilt # SysNone
    /\ sysChips.cpu.aborted = ""
    /\ \E random \in SysFills, overflow_checks \in BOOLEAN :
            sysChips' = Sys_run(sysChips, SysStep, random, overflow_checks)
    /\ sysInstr' = IF SysFinished(sysChips.cpu, sysChips'.cpu) /\ sysInstr < MaxInstr
                   THEN sysInstr + 1 ELSE sysInstr
    /\ UNCHANGED <<sysBuilt, notSysVars>>

NextSys ==
    \/ \E program \in DOMAIN SysPrograms, vector \in SysVectors : SysBuild(program, vector)
    \/ SysRun

----------------------------------------------------------------------------
(* Ram8KB.                                                                  *)

BigCells == 0..8191

\* The addresses and the byte the caller puts on the pins of the Ram8KB: the
\* two addresses differ in A12 only.
BigAddrs == {90, 4186}
BigBytes == {60}

Ram8KB_build ==
    [powered |-> FALSE,
     ram |-> [i \in BigCells |-> 0],
     vcc |-> Pin_new("Input"),
     gnd |-> Pin_new("Output"),
     cs |-> Pin_new("Input"),
     we |-> Pin_new("Input"),
     oe |-> Pin_new("Input"),
     a |-> [i \in 1..13 |-> Pin_new("Input")],
     io |-> [i \in 1..8 |-> Pin_new("Floating")]]

\* A write branch that stores the byte in both halves of the array.
Ram8KB_writeBothHalves(chip) ==
    LET addr == Pin_read_threshold(chip.a, 33)
        byte == Pin_read_threshold(chip.io, 33) % 256
    IN [chip EXCEPT !.io = set_io_type(chip.io, "Input"),
                    !.ram[addr] = byte, !.ram[(addr + 4096) % 8192] = byte]

\* The write branch of Ram8KB::run.
Ram8KB_write(chip) ==
    LET addr == Pin_read_threshold(chip.a, 33)
        byte == Pin_read_threshold(chip.io, 33) % 256
    IN [chip EXCEPT !.io = set_io_type(chip.io, "Input"), !.ram[addr] = byte]

\* The read branch of Ram8KB::run.
Ram8KB_read(chip) ==
    LET addr == Pin_read_threshold(chip.a, 33)
    IN [chip EXCEPT !.io = Pin_write(set_io_type(chip.io, "Output"), chip.ram[addr])]

\* Ram8KB::run; random is what random::<u8>() yields for each of the cells
\* 0..255, the ones the power-up loop fills.
Ram8KB_run(chip, random) ==
    IF State_as_logic(chip.vcc.state, 10) = "High"
    THEN LET up == [chip EXCEPT !.ram = IF chip.powered THEN chip.ram
                                        ELSE [i \in BigCells |->
                                                 IF i < 256 THEN random[i] ELSE chip.ram[i]],
                                !.powered = TRUE,
                                !.gnd.state = "Low"]
         IN IF up.cs.state = "Low"
            THEN IF up.we.state = "Low" THEN Ram8KB_write(up)
                 ELSE IF up.oe.state = "Low" THEN Ram8KB_read(up)
                 ELSE [up EXCEPT !.io = set_io_type(up.io, "Floating")]
            ELSE [up EXCEPT !.io = set_io_type(up.io, "Floating")]
    ELSE IF chip.powered
         THEN [chip EXCEPT !.io = set_io_type(chip.io, "Floating"), !.powered = FALSE]
         ELSE chip

BigInit == bigChip = Ram8KB_build

\* ram.vcc.state = ..., ram.cs.state = ..., ram.we.state = ..., ram.oe.state = ...
BigSetVcc(st) ==
    /\ bigChip.vcc.state # st
    /\ bigChip' = [bigChip EXCEPT !.vcc.state = st]
    /\ UNCHANGED notBigVars

BigSetCs(st) ==
    /\ bigChip.cs.state # st
    /\ bigChip' = [bigChip EXCEPT !.cs.state = st]
    /\ UNCHANGED notBigVars

BigSetWe(st) ==
    /\ bigChip.we.state # st
    /\ bigChip' = [bigChip EXCEPT !.we.state = st]
    /\ UNCHANGED notBigVars

BigSetOe(st) ==
    /\ bigChip.oe.state # st
    /\ bigChip' = [bigChip EXCEPT !.oe.state = st]
    /\ UNCHANGED notBigVars

\* Pin::write(&mut [a0 .. a12], a)
BigWriteAddr(a) ==
    /\ Presented(bigChip.a) # a
    /\ bigChip' = [bigChip EXCEPT !.a = Pin_write(bigChip.a, a)]
    /\ UNCHANGED notBigVars

\* Pin::write(&mut [io0 .. io7], b)
BigWriteIo(b) ==
    /\ Presented(bigChip.io) # b
    /\ bigChip' = [bigChip EXCEPT !.io = Pin_write(bigChip.io, b)]
    /\ UNCHANGED notBigVars

\* ram.run(..)
BigRun ==
    \E random \in RandomFills :
        /\ bigChip' = Ram8KB_run(bigChip, random)
        /\ UNCHANGED notBigVars

NextBig ==
    \/ \E st \in DrivenLevels : BigSetVcc(st)
    \/ \E st \in DrivenLevels : BigSetCs(st)
    \/ \E st \in DrivenLevels : BigSetWe(st)
    \/ \E st \in DrivenLevels : BigSetOe(st)
    \/ \E a \in BigAddrs : BigWriteAddr(a)
    \/ \E b \in BigBytes : BigWriteIo(b)
    \/ BigRun

----------------------------------------------------------------------------
(* Pin::write, called as examples/pins.rs calls it.                         *)

\* The longest pin slice and the largest value given to Pin::write.
MaxPins == 4
MaxValue == 31

\* (value & 1 << i) != 0, and value & (usize::MAX - (1 << i))
BitSet(value, i) == (value \div Pow2(i)) % 2 = 1
BitCleared(value, i) == IF BitSet(value, i) THEN value - Pow2(i) ELSE value

\* A loop body that sets the pin and leaves the bit in value.
Pin_write_stepKeeping(acc, i) ==
    [pins |-> [acc.pins EXCEPT ![i + 1].state = StateFromBool(BitSet(acc.value, i))],
     value |-> acc.value]

\* The body of the loop of Pin::write for the pin of index i (the pin i + 1 of
\* the sequence): the pin takes the bit, the bit leaves value.
Pin_write_step(acc, i) ==
    [pins |-> [acc.pins EXCEPT ![i + 1].state = StateFromBool(BitSet(acc.value, i))],
     value |-> BitCleared(acc.value, i)]

RECURSIVE Pin_write_loop(_, _)
Pin_write_loop(acc, i) ==
    IF i >= Len(acc.pins) THEN acc ELSE Pin_write_loop(Pin_write_step(acc, i), i + 1)

\* Pin::write: the pins it leaves and the bool it returns.
Pin_write_call(ps, value) ==
    LET end == Pin_write_loop([pins |-> ps, value |-> value], 0)
    IN [pins |-> end.pins, returned |-> end.value > 0]

PwInit ==
    /\ pwPins = <<>>
    /\ pwValue = 0
    /\ pwResult = FALSE
    /\ pwAt = "none"

\* let mut a = Pin { pin_type: PinType::Output, state: .. }; ..
PwBuild(n, st) ==
    /\ pwAt = "none"
    /\ pwPins' = [i \in 1..n |-> [pin_type |-> "Output", state |-> st]]
    /\ pwAt' = "built"
    /\ UNCHANGED <<pwValue, pwResult, notPwVars>>

\* Pin::write(&mut [&mut a, ..], value)
PwWrite(value) ==
    /\ pwAt = "built"
    /\ pwValue' = value
    /\ pwPins' = Pin_write_call(pwPins, value).pins
    /\ pwResult' = Pin_write_call(pwPins, value).returned
    /\ pwAt' = "written"
    /\ UNCHANGED notPwVars

NextPw ==
    \/ \E n \in 0..MaxPins, st \in States : PwBuild(n, st)
    \/ \E value \in 0..MaxValue : PwWrite(value)

----------------------------------------------------------------------------
(* The gate chips of chip/gates: and.rs, nand.rs, or.rs, nor.rs.            *)

GateVCC == 14
GateGND == 7

TwoInputKinds == {"AndGate", "NandGate", "OrGate", "NorGate"}
ThreeInputKinds ==
    {"ThreeInputAndGate", "ThreeInputNandGate", "ThreeInputOrGate", "ThreeInputNorGate"}
GateKinds == TwoInputKinds \cup ThreeInputKinds

\* The pins of each gate of a chip, its output last: A, B, AB and so on for the
\* chips of four gates, A, B, C, ABC and so on for the chips of three.
TwoInputGates == {<<1, 2, 3>>, <<4, 5, 6>>, <<13, 12, 11>>, <<10, 9, 8>>}
ThreeInputGates == {<<1, 2, 13, 12>>, <<3, 4, 5, 6>>, <<11, 10, 9, 8>>}

GateRows(kind) == IF kind \in ThreeInputKinds THEN ThreeInputGates ELSE TwoInputGates

\* state.as_logic(3.3).into()
GateIn(st) == State_as_bool(State_as_logic(st, 33))

\* The expression each run assigns to an output, from the states of the inputs.
AndGate_gate(s) == StateFromBool(GateIn(s[1]) /\ GateIn(s[2]))
ThreeInputAndGate_gate(s) == StateFromBool(GateIn(s[1]) /\ GateIn(s[2]) /\ GateIn(s[3]))
ThreeInputNandGate_gate(s) == StateFromBool(~(GateIn(s[1]) /\ GateIn(s[2]) /\ GateIn(s[3])))
OrGate_gate(s) == StateFromBool(GateIn(s[1]) \/ GateIn(s[2]))
ThreeInputOrGate_gate(s) == StateFromBool(GateIn(s[1]) \/ GateIn(s[2]) \/ GateIn(s[3]))
NorGate_gate(s) == StateFromBool(GateIn(s[1]) \/ GateIn(s[2]))
ThreeInputNorGate_gate(s) == StateFromBool(~(GateIn(s[1]) \/ GateIn(s[2]) \/ GateIn(s[3])))

Gate_gate(kind, s) ==
    CASE kind = "AndGate" -> AndGate_gate(s)
      [] kind = "ThreeInputAndGate" -> ThreeInputAndGate_gate(s)
      [] kind = "NandGate" -> NandGate_gate(s[1], s[2])
      [] kind = "ThreeInputNandGate" -> ThreeInputNandGate_gate(s)
      [] kind = "OrGate" -> OrGate_gate(s)
      [] kind = "ThreeInputOrGate" -> ThreeInputOrGate_gate(s)
      [] kind = "NorGate" -> NorGate_gate(s)
      [] kind = "ThreeInputNorGate" -> ThreeInputNorGate_gate(s)

\* The states of the inputs of one gate.
GateInputs(chip, row) == [i \in 1..(Len(row) - 1) |-> chip.pins[row[i]].state]

\* build of each chip: GND and the outputs are Output pins, the rest Input.
Gate_build(kind) ==
    [kind |-> kind,
     pins |-> [n \in 1..14 |->
                 Pin_new(IF n = GateGND \/ \E row \in GateRows(kind) : row[Len(row)] = n
                         THEN "Output" ELSE "Input")]]

\* run of each chip
Gate_run(chip) ==
    IF State_as_logic(chip.pins[GateVCC].state, 33) = "High"
    THEN [chip EXCEPT !.pins =
            [n \in 1..14 |->
                IF n = GateGND THEN [chip.pins[n] EXCEPT !.state = "Low"]
                ELSE IF \E row \in GateRows(chip.kind) : row[Len(row)] = n
                     THEN LET row == CHOOSE r \in GateRows(chip.kind) : r[Len(r)] = n
                          IN [chip.pins[n] EXCEPT
                                !.state = Gate_gate(chip.kind, GateInputs(chip, row))]
                ELSE chip.pins[n]]]
    ELSE chip

GateInit ==
    /\ gateChip = [kind |-> "none", pins |-> <<>>]
    /\ gateRan = FALSE

\* AndGate::build(), ..., ThreeInputNorGate::build()
GateBuild(kind) ==
    /\ gateChip.kind = "none"
    /\ gateChip' = Gate_build(kind)
    /\ UNCHANGED <<gateRan, notGateVars>>

\* chip.vcc.state = ...
GateSetVcc(st) ==
    /\ gateChip.kind # "none"
    /\ gateChip.pins[GateVCC].state # st
    /\ gateChip' = [gateChip EXCEPT !.pins[GateVCC].state = st]
    /\ gateRan' = FALSE
    /\ UNCHANGED notGateVars

\* The caller drives the inputs of one gate with the levels hi, one for each
\* input, and every input of the other gates with rest.
GateDrive(row, hi, rest) ==
    /\ gateChip.kind # "none"
    /\ LET driven == [n \in 1..14 |->
                        IF gateChip.pins[n].pin_type # "Input" \/ n = GateVCC
                        THEN gateChip.pins[n]
                        ELSE IF \E i \in 1..(Len(row) - 1) : row[i] = n
                             THEN LET i == CHOOSE j \in 1..(Len(row) - 1) : row[j] = n
                                  IN [gateChip.pins[n] EXCEPT !.state = StateFromBool(hi[i])]
                             ELSE [gateChip.pins[n] EXCEPT !.state = rest]]
       IN /\ driven # gateChip.pins
          /\ gateChip' = [gateChip EXCEPT !.pins = driven]
    /\ gateRan' = FALSE
    /\ UNCHANGED notGateVars

\* chip.run(..)
GateRun ==
    /\ gateChip.kind # "none"
    /\ gateChip' = Gate_run(gateChip)
    /\ gateRan' = (State_as_logic(gateChip.pins[GateVCC].state, 33) = "High")
    /\ UNCHANGED notGateVars

NextGate ==
    \/ \E kind \in GateKinds : GateBuild(kind)
    \/ \E st \in DrivenLevels : GateSetVcc(st)
    \/ \E row \in GateRows(gateChip.kind) :
          \E hi \in [1..(Len(row) - 1) -> BOOLEAN], rest \in DrivenLevels : GateDrive(row, hi, rest)
    \/ GateRun

----------------------------------------------------------------------------
(* Storage of utilities.rs, holding the listeners of a chip.  The callback  *)
(* given to the k-th add_listener call is the number k.                     *)

\* add_listener calls made on one chip.
MaxListeners == 4

\* Storage::new
Storage_new == [next_id |-> 0, storage |-> [k \in {} |-> 0]]

\* Storage::add: the Storage it leaves and the Id it returns.
Storage_add(st, value) ==
    LET inserted == [k \in DOMAIN st.storage \cup {st.next_id} |->
                        IF k = st.next_id THEN value ELSE st.storage[k]]
    IN [storage |-> [next_id |-> st.next_id + 1, storage |-> inserted],
        id |-> Cardinality(DOMAIN inserted) - 1]

\* Storage::remove: BTreeMap::remove(&id.0).unwrap() panics on an absent key.
Storage_remove(st, id) ==
    IF id \in DOMAIN st.storage
    THEN [storage |-> [st EXCEPT !.storage = [k \in DOMAIN st.storage \ {id} |-> st.storage[k]]],
          panic |-> FALSE]
    ELSE [storage |-> st, panic |-> TRUE]

StorInit ==
    /\ listeners = Storage_new
    /\ listenerIds = <<>>
    /\ listenerPanic = FALSE

\* chip.add_listener(callback)
AddListener ==
    /\ ~listenerPanic
    /\ Len(listenerIds) < MaxListeners
    /\ LET added == Storage_add(listeners, Len(listenerIds) + 1)
       IN /\ listeners' = added.storage
          /\ listenerIds' = Append(listenerIds, added.id)
    /\ UNCHANGED <<listenerPanic, notStorVars>>

\* chip.remove_listener(id), with an id that add_listener has returned
RemoveListener(id) ==
    /\ ~listenerPanic
    /\ \E k \in DOMAIN listenerIds : listenerIds[k] = id
    /\ LET removed == Storage_remove(listeners, id)
       IN /\ listeners' = removed.storage
          /\ listenerPanic' = removed.panic
    /\ UNCHANGED <<listenerIds, notStorVars>>

NextStor ==
    \/ AddListener
    \/ \E id \in 0..(MaxListeners - 1) : RemoveListener(id)

----------------------------------------------------------------------------
(* A Nes6502 that runs one program from reset: LDX #x, LDY #y, LDA #a, SEC  *)
(* or CLC, then the instruction under test.  The bus answers every read     *)
(* outside the program and the reset vector with the byte m, and the stack  *)
(* page with what the CPU stored there.  A program may test a byte with BIT *)
(* in place of its LDY, and load S with TXS in place of its SEC or CLC.     *)

\* The falling edges an instruction may spend in Execute before the model
\* stops clocking it.
ExecuteLimit == 8

\* Both bytes of the reset vector, and so the address of the program.
ExecVector == 128
ExecBase == ExecVector * 256 + ExecVector
ExecTarget == ExecBase + 7

\* The values of the register and of the operand of the instruction under test.
AluBytes == {0, 1, 127, 128, 255}

ExecProgram(x, y, a, carry, opcode, arg1, arg2, m) ==
    [x |-> x, y |-> y, a |-> a, carry |-> carry,
     opcode |-> opcode, arg1 |-> arg1, arg2 |-> arg2, m |-> m,
     bit |-> FALSE, txs |-> FALSE]

\* The same program with BIT $y, which copies bit 6 of m into V, for its LDY.
WithBit(p) == [p EXCEPT !.bit = TRUE]

\* The same program with TXS, which copies x into S, for its SEC or CLC.
WithTxs(p) == [p EXCEPT !.txs = TRUE]

\* Every opcode byte once, with fixed registers and operands.
CoverPrograms == {ExecProgram(3, 5, 128, FALSE, opcode, 16, 2, 64) : opcode \in 0..255}

\* ADC, CMP, CPX and CPY with an immediate operand: the register the
\* instruction reads and the operand range over AluBytes.
AluPrograms ==
    {ExecProgram(IF opcode = 224 THEN r ELSE 3, IF opcode = 192 THEN r ELSE 5,
                 IF opcode \in {105, 201} THEN r ELSE 7, carry, opcode, m, 2, 64) :
        opcode \in {105, 201, 224, 192}, r \in AluBytes, m \in AluBytes, carry \in BOOLEAN}

\* ROR of the accumulator, of zero page (plain and indexed by X) and of an
\* absolute address (plain and indexed by X).
RorPrograms ==
    {ExecProgram(3, 5, v, carry, opcode, 16, 2, v) :
        opcode \in {106, 102, 118, 110, 126}, v \in AluBytes, carry \in BOOLEAN}

\* JMP ($8080) and JMP ($8081): the two bytes the pointer names are bytes of
\* the program, 0xA2 and x, or x and 0xA0.
JmpPrograms ==
    {ExecProgram(x, 5, 7, FALSE, 108, arg1, ExecVector, 64) : x \in {3, 162}, arg1 \in {128, 129}}

\* JSR $0210 and JSR $80FF with an RTS at every address outside the program,
\* S as the reset left it or as TXS loads it.
StackBytes == {0, 1, 2, 255}
CallPrograms ==
    {ExecProgram(3, 5, 7, FALSE, 32, 16, 2, 96), ExecProgram(3, 5, 7, FALSE, 32, 255, 128, 96)}
    \cup {WithTxs(ExecProgram(x, 5, 7, FALSE, 32, 16, 2, 96)) : x \in StackBytes}

\* The eight branches: N and Z from a, C from SEC or CLC, V from bit 6 of m.
Displacements == {-128, -3, 0, 5, 127}
BranchBytes == {16, 48, 80, 112, 144, 176, 208, 240}
BranchPrograms ==
    {WithBit(ExecProgram(3, 5, a, carry, opcode, AsU8(d), 2, m)) :
        opcode \in BranchBytes, d \in Displacements, a \in {0, 1, 128},
        carry \in BOOLEAN, m \in {0, 64}}

\* TAX, TXA, TAY, TYA, TSX and TXS: the register the instruction copies
\* ranges over AluBytes, S by a TXS before the TSX.
TransferBytes == {170, 138, 168, 152, 186, 154}
TransferPrograms ==
    {ExecProgram(IF opcode \in {138, 154} THEN v ELSE 3, IF opcode = 152 THEN v ELSE 5,
                 IF opcode \in {170, 168} THEN v ELSE z, FALSE, opcode, 16, 2, 64) :
        opcode \in TransferBytes \ {186}, v \in AluBytes, z \in {0, 128}}
    \cup {WithTxs(ExecProgram(v, 5, z, FALSE, 186, 16, 2, 64)) : v \in AluBytes, z \in {0, 128}}

ExecPrograms ==
    CoverPrograms \cup AluPrograms \cup RorPrograms \cup JmpPrograms
    \cup CallPrograms \cup BranchPrograms \cup TransferPrograms

\* A program whose JSR reaches an RTS: the pair is what the test runs.
ExecCalls(p) == p.opcode = 32 /\ p.m = 96

\* The addresses the RAM answers: the stack page.
StackPage == 256..511

\* The bytes of the program, from ExecBase on.
ExecBytes(p) ==
    <<162, p.x, IF p.bit THEN 36 ELSE 160, p.y, 169, p.a,
      IF p.txs THEN 154 ELSE IF p.carry THEN 56 ELSE 24, p.opcode, p.arg1, p.arg2>>

\* What the bus presents when the CPU reads addr.
ExecBus(p, ram, addr) ==
    IF addr \in {65532, 65533} THEN ExecVector
    ELSE IF addr - ExecBase \in 0..(Len(ExecBytes(p)) - 1) THEN ExecBytes(p)[addr - ExecBase + 1]
    ELSE IF addr \in DOMAIN ram THEN ram[addr]
    ELSE p.m

\* The CPU drives the data bus: R/W Low and its data pins Output.
ExecDrives(c) ==
    c.rw.state = "Low" /\ \A i \in DOMAIN c.d : c.d[i].pin_type = "Output"

\* The RAM latches what a CPU that drives the bus presents in the stack page.
ExecLatch(ram, c) ==
    IF c.aborted = "" /\ ExecDrives(c) /\ Presented(c.a) \in StackPage
    THEN [addr \in DOMAIN ram \cup {Presented(c.a)} |->
            IF addr = Presented(c.a) THEN Presented(c.d) ELSE ram[addr]]
    ELSE ram

\* The bus answers the address pins unless the CPU drives the data pins.
ExecFeed(high, p, ram) ==
    IF high.aborted # "" \/ \E i \in DOMAIN high.d : high.d[i].pin_type = "Output"
    THEN high
    ELSE [high EXCEPT !.d = Pin_write(high.d, ExecBus(p, ram, Presented(high.a)))]

\* The second half of a period: run with CLK Low.
ExecLow(fed, overflow_checks) ==
    IF fed.aborted # "" THEN fed
    ELSE Nes6502_run([fed EXCEPT !.clk.state = "Low"], overflow_checks)

\* One period of the clock: run with CLK High, the bus feed, run with CLK Low.
ExecPeriod(c, p, ram, overflow_checks) ==
    ExecLow(ExecFeed(Nes6502_run([c EXCEPT !.clk.state = "High"], overflow_checks), p, ram),
            overflow_checks)

ExecInit ==
    /\ execChip = Nes6502_build
    /\ execProg = ExecProgram(0, 0, 0, FALSE, 0, 0, 0, 0)
    /\ execAt = "idle"
    /\ execBefore = Nes6502_build.registers
    /\ execEdges = 0
    /\ execWrote = -1
    /\ execTrail = <<>>
    /\ execRam = <<>>

\* The program is put on the bus and the CPU is given power.
ExecLoad(p) ==
    /\ execAt = "idle"
    /\ execProg' = p
    /\ execChip' = [execChip EXCEPT !.vcc.state = "High"]
    /\ execAt' = "run"
    /\ UNCHANGED <<execBefore, execEdges, execWrote, execTrail, execRam, notExecVars>>

\* What a period that left the CPU as `after` does to the bookkeeping.
ExecSettle(after) ==
    LET fetching == /\ execAt = "run"
                    /\ execChip.state.name = "Fetch"
                    /\ Presented(execChip.a) = ExecTarget
        testing == execAt \in {"target", "second"}
        fetches == after.aborted = "" /\ after.state.name = "Fetch"
    IN /\ execChip' = after
       /\ execBefore' = IF fetching THEN execChip.registers ELSE execBefore
       /\ execAt' = IF fetching THEN "target"
                    ELSE IF execAt = "target" /\ fetches
                    THEN IF ExecCalls(execProg) THEN "second" ELSE "done"
                    ELSE IF execAt = "second" /\ fetches THEN "done"
                    ELSE execAt
       /\ execEdges' = IF execAt = "target" /\ execChip.state.name = "Execute"
                       THEN execEdges + 1 ELSE execEdges
       /\ execWrote' = IF /\ execAt = "target" /\ after.aborted = ""
                          /\ \A i \in DOMAIN after.d : after.d[i].pin_type = "Output"
                       THEN Presented(after.d) ELSE execWrote
       /\ execTrail' = IF (fetching \/ testing) /\ after.aborted = ""
                       THEN Append(execTrail, [addr |-> Presented(after.a),
                                               drives |-> ExecDrives(after)])
                       ELSE execTrail
       /\ execRam' = ExecLatch(execRam, after)

\* One period of the clock.
ExecCycle ==
    /\ execAt \in {"run", "target", "second"}
    /\ execChip.aborted = ""
    /\ execEdges < ExecuteLimit
    /\ \E overflow_checks \in BOOLEAN :
          ExecSettle(ExecPeriod(execChip, execProg, execRam, overflow_checks))
    /\ UNCHANGED <<execProg, notExecVars>>

NextExec ==
    \/ \E p \in ExecPrograms : ExecLoad(p)
    \/ ExecCycle

----------------------------------------------------------------------------
(* The specifications: one for each part of the model, the other parts idle. *)

\* A ROM that was built and never given an image.
RomIdle == romChip = Rom256B_build /\ romBuilt = romChip.rom

\* The parts the later sections add.
LaterInit ==
    /\ MemInit /\ ClockInit /\ RunInit /\ LatchInit /\ SysInit
    /\ BigInit /\ PwInit /\ GateInit /\ StorInit /\ ExecInit

Init == BoardInit /\ RamInit /\ RomIdle /\ OpInit /\ AsmInit /\ CpuInit /\ LaterInit

Spec == Init /\ [][Next]_vars

SpecRam == Init /\ [][NextRam]_vars

InitRom == BoardInit /\ RamInit /\ RomInit /\ OpInit /\ AsmInit /\ CpuInit /\ LaterInit

SpecRom == InitRom /\ [][NextRom]_vars

SpecOp == Init /\ [][NextOp]_vars

SpecAsm == Init /\ [][NextAsm]_vars

SpecCpu == Init /\ [][NextCpu]_vars

SpecMem == Init /\ [][NextMem]_vars

SpecClock == Init /\ [][NextClock]_vars

\* The caller of run_during lets a call in progress go on.
SpecRun ==
    /\ Init /\ [][NextRun]_vars
    /\ WF_vars(RunDuringTest) /\ WF_vars(RunDuringLoop) /\ WF_vars(RunDuringReturn)

SpecLatch == Init /\ [][NextLatch]_vars

SpecSys == Init /\ [][NextSys]_vars

SpecBig == Init /\ [][NextBig]_vars

SpecPw == Init /\ [][NextPw]_vars

SpecGate == Init /\ [][NextGate]_vars

SpecStor == Init /\ [][NextStor]_vars

SpecExec == Init /\ [][NextExec]_vars

----------------------------------------------------------------------------
(* Claims about the board tick and the traces.                              *)

\* The pass (a) of the specification: every Input pin becomes Undefined.
ClearedInputs(ps) ==
    [p \in DOMAIN ps |->
        IF ps[p].pin_type = "Input" THEN [ps[p] EXCEPT !.state = "Undefined"] ELSE ps[p]]

\* The traces that hold pin p, and the Output pins of trace t when the tick began.
TracesOf(p) == {t \in DOMAIN traces : p \in Range(traces[t])}
OutputsOf(t) == {q \in Range(traces[t]) : pre[q].pin_type = "Output"}

\* C1: every board tick is three passes in this order: (a) every Input pin of
\* every chip is set to Undefined, (b) every trace is resolved in insertion
\* order, (c) every chip is ticked in insertion order.  So the pins the chips
\* find are the trace pass applied to the cleared pins, and the pins after the
\* tick are the socket pass applied to those.
C1_ThreePassTick ==
    ran => /\ mid = CommunicateAll(ClearedInputs(pre), traces, 1)
           /\ pins = RunSockets(mid, sockets, 1)

\* C2: a trace one of whose Output pins holds High when it is resolved leaves
\* High on every one of its Input pins after the tick, whatever else drives it
\* and whatever the order of its link.
C2_HighWins ==
    ran => \A t \in DOMAIN traces :
              (\E q \in OutputsOf(t) : pre[q].state = "High")
              => \A p \in Range(traces[t]) :
                    (pre[p].pin_type = "Input" /\ pins[p].pin_type = "Input")
                    => pins[p].state = "High"

\* C3: resolving the traces never changes the state of a Floating pin.
C3_FloatingUntouched ==
    ran => \A p \in PinIds : pre[p].pin_type = "Floating" => mid[p].state = pre[p].state

\* C4: what a chip writes to an Output pin in its own tick of board tick n is
\* not seen on any other chip's Input pin in tick n: what a chip reads in tick
\* n is its old state, Undefined, or the state an Output pin of one of its
\* traces had before tick n began; and the only Output pin of the only trace of
\* an Input pin is read in tick n with the state it had at the end of tick n-1.
C4_SeenNextTick ==
    ran => \A c \in DOMAIN sockets :
              LET p == <<c, ButtonIN>> IN
              /\ seen[c] \in {pre[p].state, "Undefined"}
                               \cup {pre[q].state : q \in UNION {OutputsOf(t) : t \in TracesOf(p)}}
              /\ \A t \in TracesOf(p) : \A q \in OutputsOf(t) :
                    (pre[p].pin_type = "Input" /\ TracesOf(p) = {t} /\ OutputsOf(t) = {q})
                    => seen[c] = pre[q].state

\* A tick in which the pressed button put High on its OUT pin and the button
\* wired to that pin still read something else on its IN pin.
C4_Witness ==
    /\ ran
    /\ <<3, ButtonIN>> \in Range(traces[Len(traces)])
    /\ <<2, ButtonOUT>> \in Range(traces[Len(traces)])
    /\ pre[<<2, ButtonOUT>>].state # "High"
    /\ pins[<<2, ButtonOUT>>].state = "High"
    /\ pins[<<3, ButtonIN>>].pin_type = "Input"
    /\ seen[3] # "High"

\* The next tick of such a board: the button now reads the High written before.
C4_WitnessNextTick ==
    /\ ran
    /\ TracesOf(<<3, ButtonIN>>) = {Len(traces)}
    /\ OutputsOf(Len(traces)) = {<<2, ButtonOUT>>}
    /\ pre[<<2, ButtonOUT>>].state = "High"
    /\ pre[<<3, ButtonIN>>].state # "High"
    /\ pins[<<3, ButtonIN>>].pin_type = "Input"
    /\ seen[3] = "High"

----------------------------------------------------------------------------
(* Claims about the memory chips.                                           *)

\* C5: for every address a and byte b, a powered RAM ticked once with CS Low,
\* WE Low, a on its address pins and b on its IO pins, and then ticked once
\* with CS Low, WE High, OE Low and a on its address pins, carries b on its IO
\* pins after the second tick.
C5_WriteReadRoundTrip == ramReadBack # <<>> => ramReadBack[3] = ramReadBack[2]

\* The byte 60 written at address 90, where no power-up fill holds 60, and
\* read back by the next tick.
C5_Witness ==
    /\ ramReadBack # <<>>
    /\ ramReadBack[1] = 90
    /\ ramReadBack[2] = 60
    /\ \A i \in 1..8 : ramChip.io[i].pin_type = "Output"

\* C6: after any sequence of ticks, whatever levels are put on its VCC, CS, OE,
\* address and IO pins, the byte array of a ROM equals its contents at build time.
C6_RomImmutable == romChip.rom = romBuilt

\* A ROM built with an image, powered, that has put byte 1 of the image on
\* its IO pins.
C6_Witness ==
    /\ romBuilt[1] = 90
    /\ romChip.powered
    /\ Presented(romChip.a) = 1
    /\ \A i \in 1..8 : romChip.io[i].pin_type = "Output"
    /\ Pin_read(romChip.io) = 90

----------------------------------------------------------------------------
(* Claims about the opcode tables and the assembler.                        *)

\* The opcode table of the MOS 6502: the byte of every legal pair of mnemonic
\* and addressing mode (accumulator mode is Implicit, as in AddressingMode).
MOS6502 ==
    <<"ADC", "IndexedIndirect">> :> \H61 @@ <<"ADC", "ZeroPage">> :> \H65
    @@ <<"ADC", "Immediate">> :> \H69 @@ <<"ADC", "Absolute">> :> \H6D
    @@ <<"ADC", "IndirectIndexed">> :> \H71 @@ <<"ADC", "ZeroPageIndexedX">> :> \H75
    @@ <<"ADC", "AbsoluteIndexedY">> :> \H79 @@ <<"ADC", "AbsoluteIndexedX">> :> \H7D
    @@ <<"AND", "IndexedIndirect">> :> \H21 @@ <<"AND", "ZeroPage">> :> \H25
    @@ <<"AND", "Immediate">> :> \H29 @@ <<"AND", "Absolute">> :> \H2D
    @@ <<"AND", "IndirectIndexed">> :> \H31 @@ <<"AND", "ZeroPageIndexedX">> :> \H35
    @@ <<"AND", "AbsoluteIndexedY">> :> \H39 @@ <<"AND", "AbsoluteIndexedX">> :> \H3D
    @@ <<"ASL", "ZeroPage">> :> \H06 @@ <<"ASL", "Implicit">> :> \H0A
    @@ <<"ASL", "Absolute">> :> \H0E @@ <<"ASL", "ZeroPageIndexedX">> :> \H16
    @@ <<"ASL", "AbsoluteIndexedX">> :> \H1E @@ <<"BCC", "Relative">> :> \H90
    @@ <<"BCS", "Relative">> :> \HB0 @@ <<"BEQ", "Relative">> :> \HF0
    @@ <<"BIT", "ZeroPage">> :> \H24 @@ <<"BIT", "Absolute">> :> \H2C
    @@ <<"BMI", "Relative">> :> \H30 @@ <<"BNE", "Relative">> :> \HD0
    @@ <<"BPL", "Relative">> :> \H10 @@ <<"BRK", "None">> :> \H00
    @@ <<"BVC", "Relative">> :> \H50 @@ <<"BVS", "Relative">> :> \H70
    @@ <<"CLC", "None">> :> \H18 @@ <<"CLD", "None">> :> \HD8
    @@ <<"CLI", "None">> :> \H58 @@ <<"CLV", "None">> :> \HB8
    @@ <<"CMP", "IndexedIndirect">> :> \HC1 @@ <<"CMP", "ZeroPage">> :> \HC5
    @@ <<"CMP", "Immediate">> :> \HC9 @@ <<"CMP", "Absolute">> :> \HCD
    @@ <<"CMP", "IndirectIndexed">> :> \HD1 @@ <<"CMP", "ZeroPageIndexedX">> :> \HD5
    @@ <<"CMP", "AbsoluteIndexedY">> :> \HD9 @@ <<"CMP", "AbsoluteIndexedX">> :> \HDD
    @@ <<"CPX", "Immediate">> :> \HE0 @@ <<"CPX", "ZeroPage">> :> \HE4
    @@ <<"CPX", "Absolute">> :> \HEC @@ <<"CPY", "Immediate">> :> \HC0
    @@ <<"CPY", "ZeroPage">> :> \HC4 @@ <<"CPY", "Absolute">> :> \HCC
    @@ <<"DEC", "ZeroPage">> :> \HC6 @@ <<"DEC", "Absolute">> :> \HCE
    @@ <<"DEC", "ZeroPageIndexedX">> :> \HD6 @@ <<"DEC", "AbsoluteIndexedX">> :> \HDE
    @@ <<"DEX", "None">> :> \HCA @@ <<"DEY", "None">> :> \H88
    @@ <<"EOR", "IndexedIndirect">> :> \H41 @@ <<"EOR", "ZeroPage">> :> \H45
    @@ <<"EOR", "Immediate">> :> \H49 @@ <<"EOR", "Absolute">> :> \H4D
    @@ <<"EOR", "IndirectIndexed">> :> \H51 @@ <<"EOR", "ZeroPageIndexedX">> :> \H55
    @@ <<"EOR", "AbsoluteIndexedY">> :> \H59 @@ <<"EOR", "AbsoluteIndexedX">> :> \H5D
    @@ <<"INC", "ZeroPage">> :> \HE6 @@ <<"INC", "Absolute">> :> \HEE
    @@ <<"INC", "ZeroPageIndexedX">> :> \HF6 @@ <<"INC", "AbsoluteIndexedX">> :> \HFE
    @@ <<"INX", "None">> :> \HE8 @@ <<"INY", "None">> :> \HC8
    @@ <<"JMP", "Absolute">> :> \H4C @@ <<"JMP", "Indirect">> :> \H6C
    @@ <<"JSR", "Absolute">> :> \H20 @@ <<"LDA", "IndexedIndirect">> :> \HA1
    @@ <<"LDA", "ZeroPage">> :> \HA5 @@ <<"LDA", "Immediate">> :> \HA9
    @@ <<"LDA", "Absolute">> :> \HAD @@ <<"LDA", "IndirectIndexed">> :> \HB1
    @@ <<"LDA", "ZeroPageIndexedX">> :> \HB5 @@ <<"LDA", "AbsoluteIndexedY">> :> \HB9
    @@ <<"LDA", "AbsoluteIndexedX">> :> \HBD @@ <<"LDX", "Immediate">> :> \HA2
    @@ <<"LDX", "ZeroPage">> :> \HA6 @@ <<"LDX", "Absolute">> :> \HAE
    @@ <<"LDX", "ZeroPageIndexedY">> :> \HB6 @@ <<"LDX", "AbsoluteIndexedY">> :> \HBE
    @@ <<"LDY", "Immediate">> :> \HA0 @@ <<"LDY", "ZeroPage">> :> \HA4
    @@ <<"LDY", "Absolute">> :> \HAC @@ <<"LDY", "ZeroPageIndexedX">> :> \HB4
    @@ <<"LDY", "AbsoluteIndexedX">> :> \HBC @@ <<"LSR", "ZeroPage">> :> \H46
    @@ <<"LSR", "Implicit">> :> \H4A @@ <<"LSR", "Absolute">> :> \H4E
    @@ <<"LSR", "ZeroPageIndexedX">> :> \H56 @@ <<"LSR", "AbsoluteIndexedX">> :> \H5E
    @@ <<"NOP", "None">> :> \HEA @@ <<"ORA", "IndexedIndirect">> :> \H01
    @@ <<"ORA", "ZeroPage">> :> \H05 @@ <<"ORA", "Immediate">> :> \H09
    @@ <<"ORA", "Absolute">> :> \H0D @@ <<"ORA", "IndirectIndexed">> :> \H11
    @@ <<"ORA", "ZeroPageIndexedX">> :> \H15 @@ <<"ORA", "AbsoluteIndexedY">> :> \H19
    @@ <<"ORA", "AbsoluteIndexedX">> :> \H1D @@ <<"PHA", "None">> :> \H48
    @@ <<"PHP", "None">> :> \H08 @@ <<"PLA", "None">> :> \H68
    @@ <<"PLP", "None">> :> \H28 @@ <<"ROL", "ZeroPage">> :> \H26
    @@ <<"ROL", "Implicit">> :> \H2A @@ <<"ROL", "Absolute">> :> \H2E
    @@ <<"ROL", "ZeroPageIndexedX">> :> \H36 @@ <<"ROL", "AbsoluteIndexedX">> :> \H3E
    @@ <<"ROR", "ZeroPage">> :> \H66 @@ <<"ROR", "Implicit">> :> \H6A
    @@ <<"ROR", "Absolute">> :> \H6E @@ <<"ROR", "ZeroPageIndexedX">> :> \H76
    @@ <<"ROR", "AbsoluteIndexedX">> :> \H7E @@ <<"RTI", "None">> :> \H40
    @@ <<"RTS", "None">> :> \H60 @@ <<"SBC", "IndexedIndirect">> :> \HE1
    @@ <<"SBC", "ZeroPage">> :> \HE5 @@ <<"SBC", "Immediate">> :> \HE9
    @@ <<"SBC", "Absolute">> :> \HED @@ <<"SBC", "IndirectIndexed">> :> \HF1
    @@ <<"SBC", "ZeroPageIndexedX">> :> \HF5 @@ <<"SBC", "AbsoluteIndexedY">> :> \HF9
    @@ <<"SBC", "AbsoluteIndexedX">> :> \HFD @@ <<"SEC", "None">> :> \H38
    @@ <<"SED", "None">> :> \HF8 @@ <<"SEI", "None">> :> \H78
    @@ <<"STA", "IndexedIndirect">> :> \H81 @@ <<"STA", "ZeroPage">> :> \H85
    @@ <<"STA", "Absolute">> :> \H8D @@ <<"STA", "IndirectIndexed">> :> \H91
    @@ <<"STA", "ZeroPageIndexedX">> :> \H95 @@ <<"STA", "AbsoluteIndexedY">> :> \H99
    @@ <<"STA", "AbsoluteIndexedX">> :> \H9D @@ <<"STX", "ZeroPage">> :> \H86
    @@ <<"STX", "Absolute">> :> \H8E @@ <<"STX", "ZeroPageIndexedY">> :> \H96
    @@ <<"STY", "ZeroPage">> :> \H84 @@ <<"STY", "Absolute">> :> \H8C
    @@ <<"STY", "ZeroPageIndexedX">> :> \H94 @@ <<"TAX", "None">> :> \HAA
    @@ <<"TAY", "None">> :> \HA8 @@ <<"TSX", "None">> :> \HBA
    @@ <<"TXA", "None">> :> \H8A @@ <<"TXS", "None">> :> \H9A
    @@ <<"TYA", "None">> :> \H98

\* The pairs of mnemonic and addressing mode that are legal on a 6502.
Legal(o) == <<o.op, o.mode>> \in DOMAIN MOS6502

\* C8: for every instruction whose pair of mnemonic and addressing mode is
\* legal and for every operand, decoding the first byte of its encoding and
\* then applying set_arg1 and set_arg2 to the remaining bytes yields the same
\* variant with the same addressing mode and the same operand.
C8_RoundTrip ==
    (opOne # NoOpcode /\ Legal(opOne))
    => /\ opEnc.ok
       /\ opStage >= 1 => (opDec.op = opOne.op /\ opDec.mode = opOne.mode)
       /\ opStage = Len(opEnc.bytes) => opDec = opOne

\* The same round trip over the instructions the encoder accepts.
AcceptedRoundTrip ==
    opEnc.ok
    => /\ opStage >= 1 => (opDec.op = opOne.op /\ opDec.mode = opOne.mode)
       /\ opStage = Len(opEnc.bytes) => opDec = opOne

\* C9: for every pair of mnemonic and addressing mode the encoder accepts, the
\* first encoded byte is the byte the MOS 6502 opcode table gives that pair.
C9_CanonicalByte ==
    opEnc.ok => /\ Legal(opOne)
                /\ opEnc.bytes[1] = MOS6502[<<opOne.op, opOne.mode>>]

\* C10: assemble returns InvalidAddressMode if and only if the program holds
\* at least one instruction whose pair of mnemonic and addressing mode is not
\* legal on a 6502; otherwise it returns bytes.
C10_InvalidAddressModeIff ==
    asmDone => /\ asmResult = Err("InvalidAddressMode")
                    <=> \E i \in DOMAIN asmCode : ~Legal(asmCode[i])
               /\ asmResult.ok \/ asmResult = Err("InvalidAddressMode")

----------------------------------------------------------------------------
(* Claims about the CPU.                                                    *)

\* The registers, the buffer and the step of the CPU stay within their widths.
CpuTypeOK ==
    /\ cpuChip.registers.a \in 0..255 /\ cpuChip.registers.x \in 0..255
    /\ cpuChip.registers.y \in 0..255 /\ cpuChip.registers.s \in 0..255
    /\ cpuChip.registers.p \in 0..255 /\ cpuChip.registers.pc \in 0..65535
    /\ cpuChip.buffer \in 0..65535
    /\ cpuChip.state.step \in 0..MaxTicks

\* C7: no tick aborts: whatever state the CPU has reached, whatever byte is on
\* the data bus and whatever its registers and pins hold, every call of run
\* returns to the caller without panicking.
C7_NoTickAborts == cpuChip.aborted = ""

\* What the CPU keeps between clock edges: the state machine, the registers,
\* the buffer and the address pins.
CpuCore(c) == <<c.state, c.registers, c.buffer, c.a>>

\* The tick that starts in c has VCC High, and samples CLK Low after High.
CpuPowered(c) == c.powered /\ State_as_logic(c.vcc.state, 33) = "High"
CpuFalling(c) == c.clock /\ State_as_logic(c.clk.state, 33) = "Low"

\* C11: while the CPU is powered, its state, its registers, its buffer and its
\* address pins change only in a tick that samples CLK Low after High; a tick
\* with a rising edge or with no edge leaves all of them as they were.
C11_OnlyFallingEdge ==
    [][(CpuPowered(cpuChip) /\ ~CpuFalling(cpuChip)) => CpuCore(cpuChip') = CpuCore(cpuChip)]_vars

\* A powered CPU waiting for an operand after a tick with a rising edge.
C11_Witness ==
    /\ cpuChip.powered /\ cpuChip.clock /\ cpuChip.state.name = "Arg1"
    /\ \A i \in DOMAIN cpuChip.d : cpuChip.d[i].pin_type = "Input"

\* C12: in the tick in which VCC reads High while the powered flag is clear,
\* at the first power-up and at every later one, the CPU sets A = X = Y = 0,
\* S = 0xFD, P = 0x34, PC = 0xFFFC and state = Reset before it handles a clock
\* edge: the tick ends in Reset with PC = 0xFFFC, or, when it also samples CLK
\* Low after High, with 0xFFFC requested and PC = 0xFFFD.
C12_PowerUpReset ==
    [][(~cpuChip.powered /\ cpuChip'.powered) =>
          /\ cpuChip'.registers.a = 0 /\ cpuChip'.registers.x = 0 /\ cpuChip'.registers.y = 0
          /\ cpuChip'.registers.s = 253 /\ cpuChip'.registers.p = 52
          /\ IF CpuFalling(cpuChip)
             THEN /\ cpuChip'.state.name = "ResetCollectHighByte"
                  /\ Presented(cpuChip'.a) = 65532 /\ cpuChip'.registers.pc = 65533
             ELSE /\ cpuChip'.state.name = "Reset" /\ cpuChip'.registers.pc = 65532]_vars

\* A CPU in Reset with the reset values, powered up again after an earlier
\* power-up had put an address on the bus.
C12_Witness ==
    /\ cpuChip.powered /\ cpuChip.state.name = "Reset"
    /\ cpuChip.registers = [a |-> 0, x |-> 0, y |-> 0, pc |-> 65532, s |-> 253, p |-> 52]
    /\ Presented(cpuChip.a) # -1

\* C13: from Reset three falling edges of CLK bring the CPU to Fetch. The first
\* presents 0xFFFC on the address pins, the second presents 0xFFFD and keeps
\* the byte h it samples as h << 8, the third samples l and leaves v = (h << 8)
\* + l on the address pins and PC = v + 1 (in 16 bits).
C13_ResetSequence ==
    [][(cpuTicks' = cpuTicks + 1 /\ CpuPowered(cpuChip) /\ CpuFalling(cpuChip)) =>
          LET name == cpuChip.state.name
              data == Nes6502_get_data(cpuChip)
              v == cpuChip.buffer + data
          IN /\ name = "Reset" =>
                  /\ cpuChip'.state.name = "ResetCollectHighByte"
                  /\ Presented(cpuChip'.a) = 65532
             /\ name = "ResetCollectHighByte" =>
                  /\ cpuChip'.state.name = "ResetCollectLowByte"
                  /\ Presented(cpuChip'.a) = 65533
                  /\ cpuChip'.buffer = data * 256
             /\ name = "ResetCollectLowByte" =>
                  /\ cpuChip.buffer % 256 = 0
                  /\ cpuChip'.state.name = "Fetch"
                  /\ Presented(cpuChip'.a) = v
                  /\ cpuChip'.registers.pc = (v + 1) % 65536]_vars

\* A CPU in Fetch whose reset vector was 0xFFFF: PC has wrapped to 0.
C13_Witness ==
    /\ cpuChip.powered /\ cpuChip.state.name = "Fetch"
    /\ cpuChip.buffer = 65535 /\ Presented(cpuChip.a) = 65535 /\ cpuChip.registers.pc = 0

----------------------------------------------------------------------------
(* Claims about the Ram256B of chip/memory.rs.                              *)

\* What the run of chip/memory.rs takes for a powered chip.
MemPowered(chip) ==
    chip.pin[memory_GND].state = "Low" /\ chip.pin[memory_VCC].state = "High"

\* C19: after a run in which the RAM is unpowered or its CS pin is not Low,
\* the eight IO pins all have the direction Floating.
C19_IdleFloating ==
    [][(MemRun /\ (~MemPowered(memChip) \/ memChip.pin[memory_CS].state # "Low"))
          => \A n \in memory_IO : memChip'.pin[n].pin_type = "Floating"]_vars

\* C20: a run of a powered RAM with CS, WE and OE all Low does the write
\* branch only: the IO pins end as Input, holding what the caller put there.
C20_WriteOnly ==
    [][(MemRun /\ MemPowered(memChip)
        /\ \A n \in {memory_CS, memory_WE, memory_OE} : memChip.pin[n].state = "Low")
          => \A n \in memory_IO :
                /\ memChip'.pin[n].pin_type = "Input"
                /\ memChip'.pin[n].state = memChip.pin[n].state]_vars

----------------------------------------------------------------------------
(* Claims about the board of examples/test-6502.rs.                         *)

\* The board of scenario S4 with the vector bytes the scenario names, and
\* the board of scenario S5.
SysIsS4 == sysBuilt.program = "S4" /\ sysBuilt.vector = <<0, 128>>
SysIsS5 == sysBuilt.program = "S5"

\* C14: on the S4 board, once the CPU has executed 20 instructions after its
\* reset, A holds 0x5A and the carry flag is set.
C14_Arithmetic ==
    (SysIsS4 /\ sysInstr >= 20) =>
        /\ sysChips.cpu.registers.a = 90
        /\ StatusRegister_contains(sysChips.cpu.registers.p, StatusRegister_C)

\* The address of the BMI that ends the program, and the CPU going round it.
SysBmi == 32768 + Len(Assembler_assemble(SysPrograms["S5"]).bytes) - 2
SysAtBmi == sysBuilt # SysNone /\ sysChips.cpu.registers.pc \in SysBmi..(SysBmi + 2)

\* C15: on the S5 board the CPU reaches the BMI that branches to itself, and
\* from then on RAM[$00] to RAM[$0A] all hold what RAM[$FF] holds.  The loop
\* is over after 50 instructions, so the CPU has not stopped before, and is
\* at the BMI once it has executed MaxInstr of them.
C15_LoopFills ==
    SysIsS5 =>
        /\ sysChips.cpu.aborted = ""
        /\ sysInstr >= MaxInstr =>
                /\ SysAtBmi
                /\ \A i \in 0..10 : sysChips.ram.ram[i] = sysChips.ram.ram[255]

----------------------------------------------------------------------------
(* Claims about the SR latch.                                               *)

\* C16: once three runs have followed the release of the button applied
\* last, and while no button is down, the output AB of the latch is High
\* after set and Low after reset.
C16_LatchHolds ==
    (latchSince >= 3 /\ \A c \in LatchButtons : ~latchDown[c]) =>
        /\ latchLast = "set" => latchPins[<<LatchNand, NandGateAB>>].state = "High"
        /\ latchLast = "reset" => latchPins[<<LatchNand, NandGateAB>>].state = "Low"

----------------------------------------------------------------------------
(* Claims about the clock.                                                  *)

\* floor(2 f T) for T in milliseconds
ExpectedTransitions(time) == (2 * ClockHz * time) \div 1000

\* C17: a powered clock run with steps that sum to T has changed the level
\* of CLK floor(2 f T) times, give or take one.
C17_Transitions ==
    ClockPowered(clockChip) =>
        /\ clockEdges >= ExpectedTransitions(clockTime) - 1
        /\ clockEdges <= ExpectedTransitions(clockTime) + 1

----------------------------------------------------------------------------
(* Claims about Board::run_during.                                          *)

\* C18: every call of run_during returns, whatever the duration and the step.
C18_RunForTerminates == (runAt # "idle") ~> (runAt = "idle")

----------------------------------------------------------------------------
(* Claims about the contents of the RAMs.                                   *)

\* A tick of a powered RAM changes no cell but the one its address pins spell,
\* and that one only when CS and WE are Low.
OnlyAddressed(before, after) ==
    IF before.cs.state = "Low" /\ before.we.state = "Low"
    THEN LET x == Pin_read_threshold(before.a, 33)
         IN after.ram = [before.ram EXCEPT ![x] = after.ram[x]]
    ELSE after.ram = before.ram

\* C21: between the tick that powers a RAM up and its next loss of power, the
\* byte at x changes only in a tick in which CS is Low, WE is Low and the
\* address pins spell x; every other tick, and every other address in a write
\* tick, leaves the contents as they were.  Ram256B.
C21_WriteFrame == [][ramChip.powered => OnlyAddressed(ramChip, ramChip')]_vars

\* The same of the Ram8KB.
C21_WriteFrame8KB == [][bigChip.powered => OnlyAddressed(bigChip, bigChip')]_vars

\* A powered Ram256B that has just written 60 at address 90 and still holds the
\* 255 written at address 0 before.
C21_Witness ==
    /\ ramChip.powered
    /\ ramWrote = <<90, 60>>
    /\ ramChip.ram[90] = 60
    /\ ramChip.ram[0] = 255

----------------------------------------------------------------------------
(* Claims about consecutive ticks of the board.                             *)

\* The last tick ran the board as it is wired and pressed now: nothing outside
\* the board has changed a pin or a button since that tick began.
InputsKept == ran /\ pins = Board_run(pre, traces, sockets)

\* C22: on a board of generators and buttons, chips that hold no state that
\* reacts to edges or to time, whose inputs are not changed, the pins after a
\* tick equal the pins after the tick that follows it.
C22_TraceIdempotence == [][(Run /\ InputsKept) => pins' = pins]_vars

----------------------------------------------------------------------------
(* Claims about Pin::write.                                                 *)

\* C23: Pin::write(pins, value) over n pins sets pin i to High if bit i of
\* value is 1 and to Low otherwise, for every i < n, and returns true if and
\* only if value >= 2^n.
C23_WriteBits ==
    pwAt = "written" =>
        /\ \A i \in 0..(Len(pwPins) - 1) :
              pwPins[i + 1].state = IF (pwValue \div (2 ^ i)) % 2 = 1 THEN "High" ELSE "Low"
        /\ pwResult <=> pwValue >= 2 ^ Len(pwPins)
        /\ pwPins = Pin_write(pwPins, pwValue)

\* The call of examples/pins.rs: 20 written to four pins that held High leaves
\* Low, Low, High, Low (read back as 4) and returns true.
C23_Witness ==
    /\ pwAt = "written"
    /\ pwValue = 20
    /\ Len(pwPins) = 4
    /\ pwResult
    /\ Pin_read(pwPins) = 4

----------------------------------------------------------------------------
(* Claims about the gate chips.                                             *)

\* The Boolean function of each kind of gate, of the levels b of its inputs.
GateFunction(kind, b) ==
    LET all == \A i \in DOMAIN b : b[i]
        some == \E i \in DOMAIN b : b[i]
    IN CASE kind \in {"AndGate", "ThreeInputAndGate"} -> all
         [] kind \in {"NandGate", "ThreeInputNandGate"} -> ~all
         [] kind \in {"OrGate", "ThreeInputOrGate"} -> some
         [] kind \in {"NorGate", "ThreeInputNorGate"} -> ~some

\* C24: after a tick with VCC High, every output of every gate chip equals the
\* Boolean function of its gate applied to the as_logic(3.3) levels of that
\* gate's inputs: AND, NAND, OR and NOR, with two inputs and with three.
C24_GateOutputs ==
    gateRan =>
        \A row \in GateRows(gateChip.kind) :
            gateChip.pins[row[Len(row)]].state =
                StateFromBool(GateFunction(gateChip.kind,
                    [i \in 1..(Len(row) - 1) |-> GateIn(gateChip.pins[row[i]].state)]))

----------------------------------------------------------------------------
(* Claims about the endpoints of a trace.                                   *)

\* C25: after any sequence of connect calls a trace holds no endpoint more
\* than once: connect on a trace that already holds the pin leaves its list of
\* endpoints as it was.
C25_NoDuplicateEndpoints ==
    \A t \in DOMAIN traces :
        \A i, j \in DOMAIN traces[t] : traces[t][i] = traces[t][j] => i = j

----------------------------------------------------------------------------
(* Claims about the listeners of a chip.                                    *)

\* The callbacks the chip holds.
Registered == {listeners.storage[k] : k \in DOMAIN listeners.storage}

\* C26: for every interleaving of add_listener and remove_listener calls the
\* id a registration returned names the listener it registered: the ids of
\* the registered listeners differ from one another and the entry under each
\* id is the listener that was given it, so removing by it removes that one.
C26_IdNamesListener ==
    \A c \in Registered :
        /\ listenerIds[c] \in DOMAIN listeners.storage
        /\ listeners.storage[listenerIds[c]] = c

----------------------------------------------------------------------------
(* Claims about the instructions of the CPU.                                *)

\* C27: while the CPU is powered and CLK toggles, every instruction that
\* enters Execute completes: whatever the opcode and the addressing mode, the
\* CPU is in Fetch again after a bounded number of falling edges, here fewer
\* than ExecuteLimit, so no instruction keeps it in Execute for ever.
C27_ExecuteCompletes == execAt = "target" => execEdges < ExecuteLimit

\* The instruction under test has completed, and it was the opcode byte b.
ExecDone(b) == execAt = "done" /\ execProg.opcode = b

\* The carry flag as 0 or 1.
CarryOf(p) == IF StatusRegister_contains(p, StatusRegister_C) THEN 1 ELSE 0

\* C28: for every accumulator A, operand m and carry C, ADC leaves
\* A = (A + m + C) mod 256 and sets the carry flag if and only if
\* A + m + C > 255, the sum being made without any 8-bit wrap-around on the way.
C28_AdcCarry ==
    ExecDone(105) =>
        LET sum == execBefore.a + execProg.arg1 + CarryOf(execBefore.p)
        IN /\ execChip.registers.a = sum % 256
           /\ CarryOf(execChip.registers.p) = 1 <=> sum > 255

\* C30: for every register value r (A for CMP, X for CPX, Y for CPY), every
\* operand m and every earlier state of the flags, the compare sets C = 1 iff
\* r >= m, Z = 1 iff r = m and N = bit 7 of (r - m) mod 256, whatever the carry
\* flag held before the instruction.
C30_CompareFlags ==
    \A b \in {201, 224, 192} :
        ExecDone(b) =>
            LET r == CASE b = 201 -> execBefore.a
                       [] b = 224 -> execBefore.x
                       [] b = 192 -> execBefore.y
                m == execProg.arg1
                p == execChip.registers.p
            IN /\ StatusRegister_contains(p, StatusRegister_C) <=> r >= m
               /\ StatusRegister_contains(p, StatusRegister_Z) <=> r = m
               /\ StatusRegister_contains(p, StatusRegister_N) <=> ((r - m + 256) % 256) >= 128

\* The opcode bytes of ROR: accumulator, zero page, zero page indexed by X,
\* absolute, absolute indexed by X.
RorBytes == {106, 102, 118, 110, 126}

\* C29: for every form of ROR, the accumulator form, the ZeroPage and Absolute
\* forms and the indexed forms that resolve to them, the instruction completes
\* and the value it produces is (operand >> 1) | (old C << 7), the new carry
\* flag being bit 0 of the operand.
C29_RorRotatesRight ==
    execProg.opcode \in RorBytes =>
        /\ execChip.aborted = ""
        /\ execAt = "done" =>
              LET operand == IF execProg.opcode = 106 THEN execBefore.a ELSE execProg.m
                  produced == IF execProg.opcode = 106 THEN execChip.registers.a ELSE execWrote
              IN /\ produced = (operand \div 2) + CarryOf(execBefore.p) * 128
                 /\ CarryOf(execChip.registers.p) = operand % 2
----------------------------------------------------------------------------
(* Claims about jumps, calls and the bus of the CPU.                        *)

\* The address in the operand bytes of the instruction under test.
ExecOperand == execProg.arg1 + execProg.arg2 * 256

\* The addresses the CPU presented during the instruction under test, in order.
Presents(first, then) ==
    \E i, j \in DOMAIN execTrail :
        i < j /\ execTrail[i].addr = first /\ execTrail[j].addr = then

\* C31: JMP Indirect(a) presents address a and then address a+1 on the address
\* bus, reads one byte from each, and sets PC to (byte read at a << 8) + (byte
\* read at a+1): the next opcode is requested from that address.
C31_JmpIndirect ==
    ExecDone(108) =>
        LET a == ExecOperand
            target == ExecBus(execProg, execRam, a) * 256
                      + ExecBus(execProg, execRam, (a + 1) % 65536)
        IN /\ Presents(a, (a + 1) % 65536)
           /\ Presented(execChip.a) = target
           /\ execChip.registers.pc = (target + 1) % 65536

\* The instruction under test, as Opcode::from decodes its first byte.
ExecOp == Opcode_from(execProg.opcode)

\* STA, STX, STY, PHA, PHP, and ASL, LSR, ROL, ROR, DEC, INC of a byte of memory.
WritesMemory(o) ==
    \/ o.op \in {"STA", "STX", "STY", "PHA", "PHP"}
    \/ o.op \in {"ASL", "LSR", "ROL", "ROR", "DEC", "INC"} /\ o.mode # "Implicit"

\* The address such an instruction names, from the registers it was fetched with.
TargetAddress(o) ==
    LET zp == execProg.arg1
        abs == ExecOperand
    IN CASE o.op \in {"PHA", "PHP"} -> 256 + execBefore.s
         [] o.mode = "ZeroPage" -> zp
         [] o.mode = "ZeroPageIndexedX" -> (zp + execBefore.x) % 256
         [] o.mode = "ZeroPageIndexedY" -> (zp + execBefore.y) % 256
         [] o.mode = "Absolute" -> abs
         [] o.mode = "AbsoluteIndexedX" -> (abs + execBefore.x) % 65536
         [] o.mode = "AbsoluteIndexedY" -> (abs + execBefore.y) % 65536
         [] OTHER -> -1

\* C32: a store, push or read-modify-write instruction changes one byte of
\* memory, at its target address: while R/W is Low and the data pins are Output
\* the address pins hold no other address (not the next PC either), and once
\* the instruction is done it has driven the bus at its target.
C32_WritesOnlyTarget ==
    (execAt \in {"target", "done"} /\ WritesMemory(ExecOp)) =>
        /\ \A i \in DOMAIN execTrail :
              execTrail[i].drives => execTrail[i].addr = TargetAddress(ExecOp)
        /\ execAt = "done" => \E i \in DOMAIN execTrail : execTrail[i].drives

----------------------------------------------------------------------------
(* Claims about the order of the traces and the data bus of the 6502 board. *)

\* The same traces registered in the opposite order.
Reversed(trs) == [i \in DOMAIN trs |-> trs[Len(trs) + 1 - i]]

\* C34: the pins after a board tick do not depend on the order in which the
\* traces were registered: an Input pin on two traces reads High if either
\* trace resolves to High, whichever is resolved last.  So a tick of the board
\* leaves the pins that the same tick with the traces in the opposite order
\* would leave.
C34_TraceOrder ==
    [][Run => pins' = Board_run(pins, Reversed(traces), sockets)]_vars

----------------------------------------------------------------------------
(* Claims about transfers, branches and compares.                           *)

\* The registers a transfer copies from and to, by its opcode byte.
TransferFrom == (170 :> "a" @@ 138 :> "x" @@ 168 :> "a" @@ 152 :> "y" @@ 186 :> "s" @@ 154 :> "x")
TransferTo == (170 :> "x" @@ 138 :> "a" @@ 168 :> "y" @@ 152 :> "a" @@ 186 :> "x" @@ 154 :> "s")

\* Z and N of p are the flags of the byte val.
FlagsOf(p, val) ==
    /\ StatusRegister_contains(p, StatusRegister_Z) <=> val = 0
    /\ StatusRegister_contains(p, StatusRegister_N) <=> val >= 128

\* C35: TAX, TXA, TAY, TYA and TSX copy the source register into the
\* destination register and set Z iff the copied value is 0 and N to its bit
\* 7; TXS copies X into S and leaves every flag as it was.
C35_Transfers ==
    \A b \in TransferBytes :
        ExecDone(b) =>
            LET val == execBefore[TransferFrom[b]]
            IN /\ execChip.registers[TransferTo[b]] = val
               /\ IF b = 154 THEN execChip.registers.p = execBefore.p
                  ELSE FlagsOf(execChip.registers.p, val)

\* C36: on the board of the 6502 example no two chips have Output pins on the
\* same trace of the data bus after any tick: while the data pins of the CPU
\* are Output, the IO pins of the ROM and of the RAM are not.
C36_OneDriver ==
    sysBuilt # SysNone =>
        \A i \in 1..8 :
            sysChips.cpu.d[i].pin_type = "Output"
            => /\ sysChips.rom.io[i].pin_type # "Output"
               /\ sysChips.ram.io[i].pin_type # "Output"

----------------------------------------------------------------------------
(* Claims about the CPU without power and about its program counter.        *)

\* C37: from the tick in which the CPU loses power and becomes Halted until
\* the tick in which it is powered again, its data pins are Floating.
C37_HaltedFloating ==
    cpuChip.state.name = "Halted" =>
        \A i \in DOMAIN cpuChip.d : cpuChip.d[i].pin_type = "Floating"

\* The states in which the CPU waits for a byte it has requested.
Requesting == {"ResetCollectHighByte", "ResetCollectLowByte", "Fetch", "Arg1", "Arg2"}

\* C38: whenever the CPU is in state ResetCollectHighByte, ResetCollectLowByte,
\* Fetch, Arg1 or Arg2, its address pins spell (PC - 1) mod 65536: PC is
\* incremented once for every opcode or operand byte the CPU requests.
C38_AddressIsPcLess1 ==
    (execChip.aborted = "" /\ execChip.state.name \in Requesting) =>
        Presented(execChip.a) = (execChip.registers.pc + 65535) % 65536

\* The same of the CPU driven pin by pin, through its losses of power.
C38_AddressIsPcLess1Driven ==
    (cpuChip.aborted = "" /\ cpuChip.state.name \in Requesting) =>
        Presented(cpuChip.a) = (cpuChip.registers.pc + 65535) % 65536

\* The CPU waits for the second operand byte of the JSR it has fetched, and
\* has been through every other requesting state on its way.
C38_Witness ==
    /\ execChip.state.name = "Arg2" /\ execChip.state.opcode.op = "JSR"
    /\ execAt = "target"
    /\ Presented(execChip.a) = ExecTarget + 2
    /\ execChip.registers.pc = ExecTarget + 3

\* The flag each branch tests and the value it branches on, by its opcode byte.
BranchFlag ==
    (16 :> StatusRegister_N @@ 48 :> StatusRegister_N @@ 80 :> StatusRegister_V
     @@ 112 :> StatusRegister_V @@ 144 :> StatusRegister_C @@ 176 :> StatusRegister_C
     @@ 208 :> StatusRegister_Z @@ 240 :> StatusRegister_Z)
BranchOn == (16 :> FALSE @@ 48 :> TRUE @@ 80 :> FALSE @@ 112 :> TRUE
             @@ 144 :> FALSE @@ 176 :> TRUE @@ 208 :> FALSE @@ 240 :> TRUE)

\* The displacement of the branch under test, and whether its condition held
\* when it was fetched.
BranchDisplacement == IF execProg.arg1 >= 128 THEN execProg.arg1 - 256 ELSE execProg.arg1
BranchTaken(b) == StatusRegister_contains(execBefore.p, BranchFlag[b]) = BranchOn[b]

\* C39: a branch with the signed displacement d, PC pointing at the instruction
\* that follows it, leaves PC = (PC + d) mod 65536 if its condition holds (BPL
\* N=0, BMI N=1, BVC V=0, BVS V=1, BCC C=0, BCS C=1, BNE Z=0, BEQ Z=1) and PC
\* as it was otherwise: the next opcode is requested from that address.
C39_Branches ==
    \A b \in BranchBytes :
        ExecDone(b) =>
            LET following == ExecTarget + 2
                next == IF BranchTaken(b)
                        THEN (following + BranchDisplacement + 65536) % 65536
                        ELSE following
            IN /\ Presented(execChip.a) = next
               /\ execChip.registers.pc = (next + 1) % 65536
               /\ execChip.registers.p = execBefore.p

\* BVS has branched 128 bytes back with V set, and BNE has not branched with Z set.
C39_Witness ==
    \/ /\ ExecDone(112) /\ BranchTaken(112) /\ BranchDisplacement = -128
       /\ Presented(execChip.a) = ExecTarget - 126
    \/ /\ ExecDone(208) /\ ~BranchTaken(208) /\ BranchDisplacement = 127
       /\ Presented(execChip.a) = ExecTarget + 2

\* The flags a compare may change: N, Z and C.
CompareFlags == StatusRegister_N + StatusRegister_Z + StatusRegister_C

\* C40: CMP, CPX and CPY change no register and no flag but N, Z and C: A, X,
\* Y and S, and the V, B, D and I flags, are after the instruction what they
\* were before it.
C40_CompareFrame ==
    \A b \in {201, 224, 192} :
        ExecDone(b) =>
            /\ \A reg \in {"a", "x", "y", "s"} : execChip.registers[reg] = execBefore[reg]
            /\ BitAnd(execChip.registers.p, 255 - CompareFlags)
               = BitAnd(execBefore.p, 255 - CompareFlags)

====
